---- MODULE Spec2Model ----
(***************************************************************************)
(* Karma MCP server (src/src/karma_mcp/server.py): the tool operations     *)
(* that fetch the alert snapshot from the upstream Karma API and render    *)
(* it.  One invocation is one action: it sends its request(s), receives    *)
(* the upstream outcome and computes the returned text.                    *)
(*                                                                         *)
(* Strings are sequences of code points, so that str.lower(), ==, `in`     *)
(* and sorted() are computed as Python computes them.  A returned text is  *)
(* a record naming the sentence rendered ("kind") and the values           *)
(* interpolated into it.                                                   *)
(***************************************************************************)
EXTENDS Integers, Sequences, FiniteSets, TLC

\* calls: the invocations in flight, where several run concurrently.
\* served: the JSON-RPC methods the HTTP server has answered so far.
\* heap: the fetched snapshot as Python objects, where object identity
\*       matters (filter_alerts_by_cluster).
VARIABLES upstream, pc, op, args, result, raised, requests, calls, served, heap

vars == <<upstream, pc, op, args, result, raised, requests, calls, served, heap>>

\* No snapshot is held as objects.
NoHeap == [cells |-> <<>>, alerts_data |-> 0, filtered |-> 0]

-----------------------------------------------------------------------------
(* String literals of the source and of the sample data.                   *)

STR_empty == <<>>
STR_active == <<97, 99, 116, 105, 118, 101>>
STR_Active == <<65, 99, 116, 105, 118, 101>>
STR_suppressed == <<115, 117, 112, 112, 114, 101, 115, 115, 101, 100>>
STR_all == <<97, 108, 108>>
STR_ALL == <<65, 76, 76>>
STR_bogus == <<98, 111, 103, 117, 115>>
STR_total == <<116, 111, 116, 97, 108>>
STR_Total == <<84, 111, 116, 97, 108>>
STR_unprocessed == <<117, 110, 112, 114, 111, 99, 101, 115, 115, 101, 100>>
STR_unknown == <<117, 110, 107, 110, 111, 119, 110>>
STR_Unknown == <<85, 110, 107, 110, 111, 119, 110>>
STR_none == <<110, 111, 110, 101>>
STR_NA == <<78, 47, 65>>
STR_alertname == <<97, 108, 101, 114, 116, 110, 97, 109, 101>>
STR_severity == <<115, 101, 118, 101, 114, 105, 116, 121>>
STR_Severity == <<83, 101, 118, 101, 114, 105, 116, 121>>
STR_namespace == <<110, 97, 109, 101, 115, 112, 97, 99, 101>>
STR_container == <<99, 111, 110, 116, 97, 105, 110, 101, 114>>
STR_instance == <<105, 110, 115, 116, 97, 110, 99, 101>>
STR_description == <<100, 101, 115, 99, 114, 105, 112, 116, 105, 111, 110>>
STR_critical == <<99, 114, 105, 116, 105, 99, 97, 108>>
STR_warning == <<119, 97, 114, 110, 105, 110, 103>>
STR_info == <<105, 110, 102, 111>>
STR_healthy == <<104, 101, 97, 108, 116, 104, 121>>
STR_error_prefix == <<101, 114, 114, 111, 114, 58, 32>>
STR_prod == <<112, 114, 111, 100>>
STR_Prod == <<80, 114, 111, 100>>
STR_dev == <<100, 101, 118>>
STR_qa == <<113, 97>>
STR_Crash == <<67, 114, 97, 115, 104>>
STR_crash == <<99, 114, 97, 115, 104>>
STR_HighMem == <<72, 105, 103, 104, 77, 101, 109>>
STR_ns1 == <<110, 115, 49>>
STR_nginx == <<110, 103, 105, 110, 120>>
STR_NGINX == <<78, 71, 73, 78, 88>>
STR_GIN == <<71, 73, 78>>
STR_host1 == <<104, 111, 115, 116, 49>>
STR_down == <<100, 111, 119, 110>>
STR_am1 == <<97, 109, 49>>
STR_boom == <<98, 111, 111, 109>>

-----------------------------------------------------------------------------
(* Python and JSON values.                                                 *)

\* A key that the JSON object does not hold (dict.get falls to its default).
Absent == <<-2>>

\* JSON null, Python None: it is a value, so dict.get returns it.
None == <<-1>>

\* dict.get(key, default), given the value held under key (or Absent).
Get(v, default) == IF v = Absent THEN default ELSE v

\* str.lower() on ASCII text.
Lower(s) == [i \in 1..Len(s) |-> IF s[i] \in 65..90 THEN s[i] + 32 ELSE s[i]]

\* a[:n] taken one element short
Take_DropsLast(s, n) == SubSeq(s, 1, (IF Len(s) < n THEN Len(s) ELSE n) - 1)

\* a[:n]
Take(s, n) == SubSeq(s, 1, IF Len(s) < n THEN Len(s) ELSE n)

RECURSIVE Concat(_)
\* The concatenation of a sequence of sequences (nested for loops, in order).
Concat(ss) == IF Len(ss) = 0 THEN <<>> ELSE Head(ss) \o Concat(Tail(ss))

RECURSIVE SumSeq(_)
SumSeq(s) == IF Len(s) = 0 THEN 0 ELSE Head(s) + SumSeq(Tail(s))

\* What an invocation hands to its caller.
Returns(v) == [raised |-> FALSE, exc |-> "", value |-> v]
Raises(e) == [raised |-> TRUE, exc |-> e, value |-> [kind |-> "NoResult"]]

\* a in b, taken for b.startswith(a)
Contains_Prefix(a, b) ==
    Len(a) <= Len(b) /\ SubSeq(b, 1, Len(a)) = a

\* a in b, for strings
Contains(a, b) ==
    \E i \in 0..(Len(b) - Len(a)) : SubSeq(b, i + 1, i + Len(a)) = a

RECURSIVE StrLess(_, _)
\* a < b, for strings: by code point, a proper prefix first
StrLess(a, b) ==
    IF Len(b) = 0 THEN FALSE
    ELSE IF Len(a) = 0 THEN TRUE
    ELSE IF Head(a) # Head(b) THEN Head(a) < Head(b)
    ELSE StrLess(Tail(a), Tail(b))

\* A dict is the sequence of its items [key, val] in insertion order.
HasKey(d, k) == \E i \in 1..Len(d) : d[i].key = k
KeyIndex(d, k) == CHOOSE i \in 1..Len(d) : d[i].key = k
DictGet(d, k, default) == IF HasKey(d, k) THEN d[KeyIndex(d, k)].val ELSE default
\* d[k] = v
DictSet(d, k, v) ==
    IF HasKey(d, k) THEN [d EXCEPT ![KeyIndex(d, k)].val = v]
    ELSE Append(d, [key |-> k, val |-> v])
Keys(d) == {d[i].key : i \in 1..Len(d)}

RECURSIVE DictOfPairs(_, _)
\* for label in pairs: d[label.get("name", "")] = label.get("value", "")
DictOfPairs(pairs, d) ==
    IF Len(pairs) = 0 THEN d
    ELSE DictOfPairs(Tail(pairs),
            DictSet(d, Get(Head(pairs).name, STR_empty), Get(Head(pairs).value, STR_empty)))

RECURSIVE DictOfItems(_, _)
\* for x in items: d[x.key] = x.val
DictOfItems(items, d) ==
    IF Len(items) = 0 THEN d
    ELSE DictOfItems(Tail(items), DictSet(d, Head(items).key, Head(items).val))

RECURSIVE CountKeys(_, _)
\* for k in keys: d[k] = d.get(k, 0) + 1
CountKeys(keys, d) ==
    IF Len(keys) = 0 THEN d
    ELSE CountKeys(Tail(keys), DictSet(d, Head(keys), DictGet(d, Head(keys), 0) + 1))

RECURSIVE GroupByKey(_, _)
\* for x in xs: if x.key not in d: d[x.key] = []; d[x.key].append(x.val)
GroupByKey(xs, d) ==
    IF Len(xs) = 0 THEN d
    ELSE GroupByKey(Tail(xs),
            DictSet(d, Head(xs).key, Append(DictGet(d, Head(xs).key, <<>>), Head(xs).val)))

RECURSIVE SortedByValDesc(_)
\* sorted(d.items(), key=lambda x: x[1], reverse=True): stable, so items with
\* equal counts keep their insertion order.
SortedByValDesc(d) ==
    IF Len(d) = 0 THEN <<>>
    ELSE LET x == d[Len(d)]
             front == SortedByValDesc(SubSeq(d, 1, Len(d) - 1))
             k == Cardinality({i \in 1..Len(front) : front[i].val >= x.val})
         IN SubSeq(front, 1, k) \o <<x>> \o SubSeq(front, k + 1, Len(front))

RECURSIVE SortedByKey(_)
\* sorted(d.items()): by key, the keys being distinct strings.
SortedByKey(d) ==
    IF Len(d) = 0 THEN <<>>
    ELSE LET x == d[Len(d)]
             front == SortedByKey(SubSeq(d, 1, Len(d) - 1))
             k == Cardinality({i \in 1..Len(front) : StrLess(front[i].key, x.key)})
         IN SubSeq(front, 1, k) \o <<x>> \o SubSeq(front, k + 1, Len(front))

\* sorted(d.items()) raises TypeError when it has to compare None with a str.
SortRaises(d) == Len(d) > 1 /\ None \in Keys(d)

\* Exception messages.
ExcNoneLower == "'NoneType' object has no attribute 'lower'"
ExcNoneLen == "object of type 'NoneType' has no len()"
ExcSortNone == "'<' not supported between instances of 'NoneType' and 'str'"
ExcNotObject == "'list' object has no attribute 'get'"
ExcBadJson == "Expecting value: line 1 column 1 (char 0)"

-----------------------------------------------------------------------------
(* The upstream: what Karma answers to GET /health and POST /alerts.json.  *)

Pair(n, v) == [name |-> n, value |-> v]
Alert(state, labels, annotations, ams) ==
    [state |-> state, labels |-> labels, annotations |-> annotations,
     alertmanager |-> ams]
Source(c) == [cluster |-> c]
Group(labels, alerts) == [labels |-> labels, alerts |-> alerts]
Instance(c, n, e) ==
    [cluster |-> c, name |-> n, error |-> e, publicURI |-> Absent,
     version |-> Absent]

\* Total number of alerts of a generated snapshot.
MaxAlerts == 2

SeqsUpTo(S, n) == UNION {[1..k -> S] : k \in 0..n}

GL_crit == <<Pair(STR_alertname, STR_Crash), Pair(STR_severity, STR_critical)>>
GL_nosev == <<Pair(STR_alertname, STR_HighMem)>>
GL_null == <<Pair(STR_alertname, None)>>

NsLabels == <<Pair(STR_namespace, STR_ns1)>>

\* Alerts that differ in state.
StateAlerts ==
    {Alert(s, NsLabels, <<>>, <<Source(STR_prod)>>) :
        s \in {STR_active, STR_Active, STR_suppressed, STR_unprocessed, STR_Total, Absent}}

\* Alerts that differ in their alertmanager sources.
SourceAlerts ==
    {Alert(s, NsLabels, <<>>, ams) :
        s \in {STR_active, STR_suppressed},
        ams \in {<<>>, <<Source(STR_dev)>>, <<Source(STR_prod), Source(STR_dev)>>,
                 <<Source(STR_dev), Source(STR_Prod)>>}}

\* Alerts that differ in their labels and annotations.
LabelAlerts ==
    {Alert(STR_active, ls, an, <<Source(STR_prod)>>) :
        ls \in {<<>>, <<Pair(STR_severity, STR_warning)>>,
                <<Pair(STR_container, STR_nginx), Pair(STR_instance, STR_host1)>>},
        an \in {<<>>, <<Pair(STR_description, STR_down)>>}}

\* Alerts holding null values or lacking fields.
NullAlerts ==
    {Alert(None, NsLabels, <<>>, <<Source(STR_prod)>>),
     Alert(STR_active, NsLabels, <<>>, <<Source(None)>>),
     Alert(STR_active, NsLabels, <<>>, <<Source(Absent), Source(STR_dev)>>),
     Alert(STR_active, <<Pair(STR_namespace, None)>>, <<>>, <<Source(STR_prod)>>),
     Alert(STR_suppressed, NsLabels, <<Pair(STR_description, None)>>,
           <<Source(STR_prod)>>)}

Entry(gl, a) == [labels |-> gl, alert |-> a]

EntryFamilies ==
    { {Entry(gl, a) : gl \in {GL_crit, GL_nosev}, a \in StateAlerts},
      {Entry(gl, a) : gl \in {GL_crit, GL_nosev}, a \in SourceAlerts},
      {Entry(gl, a) : gl \in {GL_crit, GL_nosev}, a \in LabelAlerts},
      {Entry(gl, a) : gl \in {GL_crit, GL_null}, a \in NullAlerts} }

RECURSIVE GroupsOf(_)
\* The alert groups of a sequence of entries: neighbours with the same group
\* labels share a group.
GroupsOf(entries) ==
    IF Len(entries) = 0 THEN <<>>
    ELSE LET e == Head(entries)
             rest == GroupsOf(Tail(entries))
         IN IF Len(rest) > 0 /\ Head(rest).labels = e.labels
            THEN <<Group(e.labels, <<e.alert>> \o Head(rest).alerts)>> \o Tail(rest)
            ELSE <<Group(e.labels, <<e.alert>>)>> \o rest

\* Largest group of a generated snapshot: one more than the largest cap.
MaxBulk == 11

\* Groups of many alerts: the same alert over and over, the last one being
\* either the same again or one that differs in state and namespace.
BulkBase == Alert(STR_active, <<Pair(STR_container, STR_nginx)>>, <<>>, <<Source(STR_prod)>>)
BulkLast ==
    Alert(STR_suppressed, <<Pair(STR_container, STR_nginx), Pair(STR_namespace, STR_ns1)>>,
          <<>>, <<Source(STR_prod)>>)
BulkGroups ==
    {<<Group(GL_crit, [i \in 1..n |-> IF i = n THEN last ELSE BulkBase])>> :
        n \in 3..MaxBulk, last \in {BulkBase, BulkLast}}

\* Longest description of a generated snapshot: one more than the largest cap.
MaxDescription == 201

\* A description of n letters, no two neighbours alike.
LongText(n) == [i \in 1..n |-> 97 + (i % 26)]

\* Lengths at, just below and just above every multiple of 50.
DescriptionLengths == {n \in 1..MaxDescription : n % 50 \in {49, 0, 1}}

\* A group of one alert that carries a long description.
DescribedGroups ==
    {<<Group(GL_crit, <<Alert(STR_active, NsLabels,
                              <<Pair(STR_description, LongText(n))>>,
                              <<Source(STR_prod)>>)>>)>> : n \in DescriptionLengths}

Instances == <<Instance(STR_prod, STR_am1, STR_empty), Instance(STR_qa, Absent, STR_boom)>>

Snapshot(groups, instances) ==
    [grids |-> IF Len(groups) = 0 THEN <<>> ELSE <<[alertGroups |-> groups]>>,
     instances |-> instances]

Snapshots ==
    {Snapshot(GroupsOf(es), Instances) :
        es \in UNION {SeqsUpTo(F, MaxAlerts) : F \in EntryFamilies}}
    \cup {[grids |-> <<[alertGroups |-> <<>>]>>, instances |-> Instances]}
    \cup {Snapshot(g, Instances) : g \in BulkGroups \cup DescribedGroups}

NoData == [grids |-> <<>>, instances |-> <<>>]

Outcome(k, c, m, d, h) == [kind |-> k, code |-> c, msg |-> m, data |-> d, health |-> h]

\* kind: "raises" (the request raises with message msg), "status" (answered
\* with status code), "unparseable" (200, body not JSON), "notobject" (200, a
\* JSON body that is no object), "ok" (200, the snapshot data).  health: the
\* status answered to GET /health.
Upstreams ==
    {Outcome("raises", 0, m, NoData, 0) : m \in {"Connection refused", "Request timeout"}}
    \cup {Outcome("status", c, "", NoData, h) : c \in {204, 404, 500}, h \in {200, 503}}
    \cup {Outcome(k, 200, "", NoData, 200) : k \in {"unparseable", "notobject"}}
    \cup {Outcome("ok", 200, "", d, 200) : d \in Snapshots}

-----------------------------------------------------------------------------
(* Rendered sentences.                                                     *)

NoResult == [kind |-> "NoResult"]
NoError == [kind |-> "NoError"]
ErrorConnecting(m) == [kind |-> "ErrorConnecting", msg |-> m]
ErrorFetchingAlerts(c) == [kind |-> "ErrorFetchingAlerts", code |-> c]
NoActiveAlerts == [kind |-> "NoActiveAlerts"]

PostAlerts == "POST /alerts.json"
GetHealth == "GET /health"

-----------------------------------------------------------------------------
(* Utility functions.                                                      *)

\* fetch_karma_alerts taking only a server error (5xx) for a failed fetch.
fetch_karma_alerts_ServerErrorsOnly(up) ==
    CASE up.kind = "raises" -> [data |-> NoData, error |-> ErrorConnecting(up.msg)]
      [] up.kind = "status" /\ up.code >= 500 ->
            [data |-> NoData, error |-> ErrorFetchingAlerts(up.code)]
      [] up.kind = "status" -> [data |-> NoData, error |-> ErrorConnecting(ExcBadJson)]
      [] up.kind = "unparseable" -> [data |-> NoData, error |-> ErrorConnecting(ExcBadJson)]
      [] up.kind = "notobject" -> [data |-> NoData, error |-> ErrorConnecting(ExcNotObject)]
      [] OTHER ->
            IF Len(up.data.grids) = 0
            THEN [data |-> NoData, error |-> NoActiveAlerts]
            ELSE [data |-> up.data, error |-> NoError]

\* fetch_karma_alerts handing an empty snapshot on as data.
fetch_karma_alerts_KeepsEmpty(up) ==
    CASE up.kind = "raises" -> [data |-> NoData, error |-> ErrorConnecting(up.msg)]
      [] up.kind = "status" -> [data |-> NoData, error |-> ErrorFetchingAlerts(up.code)]
      [] up.kind = "unparseable" -> [data |-> NoData, error |-> ErrorConnecting(ExcBadJson)]
      [] up.kind = "notobject" -> [data |-> NoData, error |-> ErrorConnecting(ExcNotObject)]
      [] OTHER -> [data |-> up.data, error |-> NoError]

\* The (data, error) pair of fetch_karma_alerts.
fetch_karma_alerts(up) ==
    CASE up.kind = "raises" -> [data |-> NoData, error |-> ErrorConnecting(up.msg)]
      [] up.kind = "status" -> [data |-> NoData, error |-> ErrorFetchingAlerts(up.code)]
      [] up.kind = "unparseable" -> [data |-> NoData, error |-> ErrorConnecting(ExcBadJson)]
      [] up.kind = "notobject" -> [data |-> NoData, error |-> ErrorConnecting(ExcNotObject)]
      [] OTHER ->
            IF Len(up.data.grids) = 0
            THEN [data |-> NoData, error |-> NoActiveAlerts]
            ELSE [data |-> up.data, error |-> NoError]

RECURSIVE extract_label_value_AnyCase(_, _, _)
\* extract_label_value comparing names without regard to letter case.
extract_label_value_AnyCase(labels, name, default) ==
    IF Len(labels) = 0 THEN default
    ELSE IF Lower(Get(Head(labels).name, STR_empty)) = Lower(name)
         THEN Get(Head(labels).value, default)
         ELSE extract_label_value_AnyCase(Tail(labels), name, default)

RECURSIVE extract_label_value(_, _, _)
extract_label_value(labels, name, default) ==
    IF Len(labels) = 0 THEN default
    ELSE IF Get(Head(labels).name, STR_empty) = name
         THEN Get(Head(labels).value, default)
         ELSE extract_label_value(Tail(labels), name, default)

RECURSIVE FirstCluster(_)
\* for am in alert.get("alertmanager", []): if "cluster" in am: ...; break
FirstCluster(ams) ==
    IF Len(ams) = 0 THEN STR_unknown
    ELSE IF Head(ams).cluster # Absent THEN Head(ams).cluster
         ELSE FirstCluster(Tail(ams))

extract_alert_metadata(group, alert) ==
    LET group_severity == extract_label_value(group.labels, STR_severity, STR_unknown)
    IN [alertname |-> extract_label_value(group.labels, STR_alertname, STR_Unknown),
        severity |-> IF group_severity = STR_unknown
                     THEN extract_label_value(alert.labels, STR_severity, STR_none)
                     ELSE group_severity,
        namespace |-> extract_label_value(alert.labels, STR_namespace, STR_NA),
        cluster |-> FirstCluster(alert.alertmanager),
        state |-> Get(alert.state, STR_unknown)]

\* for grid in grids: for group in grid.get("alertGroups", [])
AllGroups(data) == Concat([i \in 1..Len(data.grids) |-> data.grids[i].alertGroups])

\* ... for alert in group.get("alerts", []), each alert with its group
GroupAlertPairs(groups) ==
    Concat([i \in 1..Len(groups) |->
              [j \in 1..Len(groups[i].alerts) |->
                 [group |-> groups[i], alert |-> groups[i].alerts[j]]]])

TotalAlerts(groups) == SumSeq([i \in 1..Len(groups) |-> Len(groups[i].alerts)])

\* d.get(key, default) on a dict built from label or annotation pairs
PairsGet(pairs, k, default) == DictGet(DictOfPairs(pairs, <<>>), k, default)

format_alert_summary(alerts_data, include_clusters) ==
    LET pairs == GroupAlertPairs(AllGroups(alerts_data))
        metadata == [i \in 1..Len(pairs) |->
                        extract_alert_metadata(pairs[i].group, pairs[i].alert)]
        n(P(_)) == Cardinality({i \in 1..Len(metadata) : P(metadata[i])})
        sev(v) == LET P(m) == m.severity = v IN n(P)
        st(v) == LET P(m) == m.state = v IN n(P)
        cluster_counts == CountKeys([i \in 1..Len(metadata) |-> metadata[i].cluster], <<>>)
    IN [total_alerts |-> TotalAlerts(AllGroups(alerts_data)),
        severity_counts |-> [critical |-> sev(STR_critical), warning |-> sev(STR_warning),
                             info |-> sev(STR_info), none |-> sev(STR_none)],
        state_counts |-> [active |-> st(STR_active), suppressed |-> st(STR_suppressed)],
        by_cluster |-> IF include_clusters THEN SortedByValDesc(cluster_counts) ELSE <<>>]

RECURSIVE AddCounts(_, _)
\* for group in ...: d[alertname] = d.get(alertname, 0) + len(alerts)
AddCounts(groups, d) ==
    IF Len(groups) = 0 THEN d
    ELSE LET alertname == extract_label_value(Head(groups).labels, STR_alertname, STR_Unknown)
         IN AddCounts(Tail(groups),
               DictSet(d, alertname, DictGet(d, alertname, 0) + Len(Head(groups).alerts)))

extract_cluster_info(alerts_data) ==
    LET instances == alerts_data.instances
        info(x) == [uri |-> Get(x.publicURI, STR_NA),
                    version |-> Get(x.version, STR_NA),
                    status |-> IF Get(x.error, STR_empty) \in {STR_empty, None}
                               THEN STR_healthy
                               ELSE STR_error_prefix \o x.error,
                    instance_name |-> Get(x.name, STR_NA)]
        clusters == DictOfItems([i \in 1..Len(instances) |->
                        [key |-> Get(instances[i].cluster, STR_unknown),
                         val |-> info(instances[i])]], <<>>)
        pairs == GroupAlertPairs(AllGroups(alerts_data))
        sources == Concat([i \in 1..Len(pairs) |->
                       [j \in 1..Len(pairs[i].alert.alertmanager) |->
                           Get(pairs[i].alert.alertmanager[j].cluster, STR_unknown)]])
    IN [clusters |-> clusters, cluster_alert_counts |-> CountKeys(sources, <<>>)]

-----------------------------------------------------------------------------
(* Tools.  Each yields what the invocation hands back (a string, or an     *)
(* exception) and the requests it sent.                                    *)

\* Sent with the request issued a second time after a failure.
Sent_Retrying(reqs, r) ==
    [raised |-> r.raised, exc |-> r.exc, value |-> r.value,
     requests |-> IF r.value.kind \in {"ErrorConnecting", "ErrorFetchingAlerts"}
                  THEN reqs \o reqs ELSE reqs]

Sent(reqs, r) == [raised |-> r.raised, exc |-> r.exc, value |-> r.value, requests |-> reqs]

check_karma(up) ==
    Sent(<<GetHealth>>,
         IF up.kind = "raises" THEN Returns([kind |-> "CheckErrorConnecting", msg |-> up.msg])
         ELSE IF up.health = 200 THEN Returns([kind |-> "KarmaRunning"])
         ELSE Returns([kind |-> "KarmaRespondedWithCode", code |-> up.health]))

\* Show max 10 alerts per group.
ListAlertsCap == 10

\* list_alerts heading an empty snapshot "Found 0 alerts".
list_alerts_FoundZero(up) ==
    LET f == fetch_karma_alerts(up)
        groups == AllGroups(f.data)
        shown == GroupAlertPairs([i \in 1..Len(groups) |->
                    Group(groups[i].labels, Take(groups[i].alerts, ListAlertsCap))])
        entries == [i \in 1..Len(shown) |->
                      LET m == extract_alert_metadata(shown[i].group, shown[i].alert)
                      IN [alertname |-> m.alertname, severity |-> m.severity,
                          state |-> m.state, namespace |-> m.namespace]]
    IN Sent(<<PostAlerts>>,
            IF f.error \notin {NoError, NoActiveAlerts} THEN Returns(f.error)
            ELSE Returns([kind |-> "FoundAlerts", total |-> TotalAlerts(groups),
                          entries |-> entries]))

list_alerts(up) ==
    LET f == fetch_karma_alerts(up)
        groups == AllGroups(f.data)
        shown == GroupAlertPairs([i \in 1..Len(groups) |->
                    Group(groups[i].labels, Take(groups[i].alerts, ListAlertsCap))])
        entries == [i \in 1..Len(shown) |->
                      LET m == extract_alert_metadata(shown[i].group, shown[i].alert)
                      IN [alertname |-> m.alertname, severity |-> m.severity,
                          state |-> m.state, namespace |-> m.namespace]]
    IN Sent(<<PostAlerts>>,
            IF f.error # NoError THEN Returns(f.error)
            ELSE IF TotalAlerts(groups) = 0 THEN Returns(NoActiveAlerts)
            ELSE Returns([kind |-> "FoundAlerts", total |-> TotalAlerts(groups),
                          entries |-> entries]))

\* Top alert types shown.
TopAlertTypes == 10

get_alerts_summary(up) ==
    LET f == fetch_karma_alerts(up)
        summary == format_alert_summary(f.data, TRUE)
        alert_type_counts == AddCounts(AllGroups(f.data), <<>>)
    IN Sent(<<PostAlerts>>,
            IF f.error # NoError THEN Returns(f.error)
            ELSE Returns([kind |-> "Summary",
                          total_alerts |-> summary.total_alerts,
                          severity_counts |-> summary.severity_counts,
                          state_counts |-> summary.state_counts,
                          by_cluster |-> summary.by_cluster,
                          top_alerts |-> Take(SortedByValDesc(alert_type_counts),
                                              TopAlertTypes)]))

list_clusters(up) ==
    LET f == fetch_karma_alerts(up)
        info == extract_cluster_info(f.data)
        sorted == SortedByKey(info.clusters)
        listing == [i \in 1..Len(sorted) |->
                      [cluster_name |-> sorted[i].key,
                       instance_name |-> sorted[i].val.instance_name,
                       status |-> sorted[i].val.status,
                       version |-> sorted[i].val.version,
                       alert_count |-> DictGet(info.cluster_alert_counts, sorted[i].key, 0),
                       uri |-> sorted[i].val.uri]]
        counts == info.cluster_alert_counts
    IN Sent(<<PostAlerts>>,
            IF f.error # NoError THEN Returns(f.error)
            ELSE IF SortRaises(info.clusters) THEN Raises(ExcSortNone)
            ELSE Returns([kind |-> "Clusters", listing |-> listing,
                          total_clusters |-> Len(info.clusters),
                          total_alert_instances |->
                              SumSeq([i \in 1..Len(counts) |-> counts[i].val])]))

RECURSIVE AmMatch_CaseSensitive(_, _)
\* AmMatch comparing the cluster names as they are written.
AmMatch_CaseSensitive(ams, cluster_name) ==
    IF Len(ams) = 0 THEN "no"
    ELSE LET cluster == Get(Head(ams).cluster, STR_empty)
         IN IF cluster = None THEN "raise"
            ELSE IF cluster = cluster_name THEN "yes"
            ELSE AmMatch_CaseSensitive(Tail(ams), cluster_name)

RECURSIVE AmMatch(_, _)
\* for am in alert.get("alertmanager", []):
\*     if am.get("cluster", "").lower() == cluster_name.lower(): append; break
AmMatch(ams, cluster_name) ==
    IF Len(ams) = 0 THEN "no"
    ELSE LET cluster == Get(Head(ams).cluster, STR_empty)
         IN IF cluster = None THEN "raise"
            ELSE IF Lower(cluster) = Lower(cluster_name) THEN "yes"
            ELSE AmMatch(Tail(ams), cluster_name)

\* The filtered copy of the snapshot; raised when a cluster value is null.
filter_alerts_by_cluster(alerts_data, cluster_name) ==
    LET groups(grid) == grid.alertGroups
        keep(alert) == AmMatch(alert.alertmanager, cluster_name) = "yes"
        filtered_group(group) ==
            [labels |-> group.labels, alerts |-> SelectSeq(group.alerts, keep)]
        nonempty(group) == Len(group.alerts) > 0
        filtered_grid(grid) ==
            [alertGroups |-> SelectSeq([i \in 1..Len(groups(grid)) |->
                                        filtered_group(groups(grid)[i])], nonempty)]
        hasgroups(grid) == Len(grid.alertGroups) > 0
        pairs == GroupAlertPairs(AllGroups(alerts_data))
    IN [raised |-> \E i \in 1..Len(pairs) :
                      AmMatch(pairs[i].alert.alertmanager, cluster_name) = "raise",
        data |-> [grids |-> SelectSeq([i \in 1..Len(alerts_data.grids) |->
                                       filtered_grid(alerts_data.grids[i])], hasgroups),
                  instances |-> alerts_data.instances]]

list_alerts_by_cluster(up, cluster_name) ==
    LET f == fetch_karma_alerts(up)
        filtered == filter_alerts_by_cluster(f.data, cluster_name)
        groups == AllGroups(filtered.data)
        pairs == GroupAlertPairs(groups)
        entries == [i \in 1..Len(pairs) |->
                      LET m == extract_alert_metadata(pairs[i].group, pairs[i].alert)
                      IN [alertname |-> m.alertname, severity |-> m.severity,
                          state |-> m.state, namespace |-> m.namespace,
                          cluster |-> m.cluster,
                          instance |-> extract_label_value(pairs[i].alert.labels,
                                                           STR_instance, STR_unknown)]]
    IN Sent(<<PostAlerts>>,
            IF f.error # NoError THEN Returns(f.error)
            ELSE IF filtered.raised THEN Raises(ExcNoneLower)
            ELSE IF TotalAlerts(groups) = 0
                 THEN Returns([kind |-> "NoAlertsForCluster", cluster_name |-> cluster_name])
            ELSE Returns([kind |-> "ClusterAlerts", cluster_name |-> cluster_name,
                          total |-> TotalAlerts(groups), entries |-> entries]))

STR_ellipsis == <<46, 46, 46>>

\* Longest description get_alert_details shows in full.
DetailsDescriptionCap == 200

\* Truncated cutting a description that is exactly cap characters long.
Truncated_AtCap(description, cap) ==
    IF Len(description) >= cap THEN SubSeq(description, 1, cap) \o STR_ellipsis
    ELSE description

\* if len(description) > cap: description = description[:cap] + "..."
Truncated(description, cap) ==
    IF Len(description) > cap THEN SubSeq(description, 1, cap) \o STR_ellipsis
    ELSE description

get_alert_details(up, alert_name) ==
    LET f == fetch_karma_alerts(up)
        groups == AllGroups(f.data)
        alertname(group) == extract_label_value(group.labels, STR_alertname, STR_unknown)
        matches(group) == Lower(alertname(group)) = Lower(alert_name)
        matching_alerts == GroupAlertPairs(SelectSeq(groups, matches))
        description(alert) == PairsGet(alert.annotations, STR_description, Absent)
        instance(i) ==
            LET m == extract_alert_metadata(matching_alerts[i].group, matching_alerts[i].alert)
                d == description(matching_alerts[i].alert)
            IN [state |-> m.state, severity |-> m.severity, namespace |-> m.namespace,
                cluster |-> m.cluster,
                instance |-> extract_label_value(matching_alerts[i].alert.labels,
                                                 STR_instance, STR_unknown),
                description |-> IF d = Absent THEN Absent
                                ELSE Truncated(d, DetailsDescriptionCap)]
    IN Sent(<<PostAlerts>>,
            IF f.error # NoError THEN Returns(f.error)
            ELSE IF \E i \in 1..Len(groups) : alertname(groups[i]) = None
                 THEN Raises(ExcNoneLower)
            ELSE IF Len(matching_alerts) = 0
                 THEN Returns([kind |-> "NoAlertWithName", alert_name |-> alert_name])
            ELSE IF \E i \in 1..Len(matching_alerts) :
                        description(matching_alerts[i].alert) = None
                 THEN Raises(ExcNoneLen)
            ELSE Returns([kind |-> "AlertDetails", alert_name |-> alert_name,
                          count |-> Len(matching_alerts),
                          instances |-> [i \in 1..Len(matching_alerts) |-> instance(i)]]))

\* The request and the parse that the state and search tools make in their
\* own try block: (data, error), an empty snapshot being no error here.
post_alerts(up) ==
    CASE up.kind = "raises" -> [data |-> NoData, error |-> ErrorConnecting(up.msg)]
      [] up.kind = "status" -> [data |-> NoData, error |-> ErrorFetchingAlerts(up.code)]
      [] up.kind = "unparseable" -> [data |-> NoData, error |-> ErrorConnecting(ExcBadJson)]
      [] up.kind = "notobject" -> [data |-> NoData, error |-> ErrorConnecting(ExcNotObject)]
      [] OTHER -> [data |-> up.data, error |-> NoError]

\* Limit to 5 instances per alert name.
StateListCap == 5

\* list_active_alerts and list_suppressed_alerts: the same code but for the
\* state kept and the sentences.
list_alerts_in_state(up, wanted, found_kind, none_kind) ==
    LET f == post_alerts(up)
        pairs == GroupAlertPairs(AllGroups(f.data))
        alert_state(p) == Get(p.alert.state, STR_unknown)
        inState(p) == Lower(alert_state(p)) = wanted
        selected == SelectSeq(pairs, inState)
        record(p) ==
            [name |-> PairsGet(p.group.labels, STR_alertname, STR_unknown),
             state |-> alert_state(p),
             severity |-> PairsGet(p.group.labels, STR_severity, STR_unknown),
             namespace |-> PairsGet(p.alert.labels, STR_namespace, STR_NA),
             instance |-> PairsGet(p.alert.labels, STR_instance, STR_NA)]
        alert_groups == GroupByKey([i \in 1..Len(selected) |->
                            [key |-> record(selected[i]).name,
                             val |-> record(selected[i])]], <<>>)
        sorted == SortedByKey(alert_groups)
        line(a) == [instance |-> a.instance, namespace |-> a.namespace]
        section(item) ==
            [alertname |-> item.key,
             count |-> Len(item.val),
             severity |-> item.val[1].severity,
             shown |-> [i \in 1..Len(Take(item.val, StateListCap)) |-> line(item.val[i])],
             more |-> IF Len(item.val) > StateListCap
                      THEN Len(item.val) - StateListCap ELSE 0]
    IN Sent(<<PostAlerts>>,
            IF f.error # NoError THEN Returns(f.error)
            ELSE IF \E i \in 1..Len(pairs) : alert_state(pairs[i]) = None
                 THEN Returns(ErrorConnecting(ExcNoneLower))
            ELSE IF Len(selected) = 0 THEN Returns([kind |-> none_kind])
            ELSE IF SortRaises(alert_groups) THEN Returns(ErrorConnecting(ExcSortNone))
            ELSE Returns([kind |-> found_kind,
                          groups |-> [i \in 1..Len(sorted) |-> section(sorted[i])],
                          total |-> Len(selected)]))

\* list_active_alerts selecting the suppressed alerts instead of the active.
list_active_alerts_Suppressed(up) ==
    list_alerts_in_state(up, STR_suppressed, "ActiveAlerts", "NoActiveAlertsFound")

list_active_alerts(up) ==
    list_alerts_in_state(up, STR_active, "ActiveAlerts", "NoActiveAlertsFound")

list_suppressed_alerts(up) ==
    list_alerts_in_state(up, STR_suppressed, "SuppressedAlerts", "NoSuppressedAlertsFound")

valid_states == <<STR_active, STR_suppressed, STR_all>>

\* get_alerts_by_state without its validation: anything else lists all.
get_alerts_by_state_Unvalidated(up, state) ==
    IF Lower(state) = STR_active THEN list_active_alerts(up)
    ELSE IF Lower(state) = STR_suppressed THEN list_suppressed_alerts(up)
    ELSE list_alerts(up)

get_alerts_by_state(up, state) ==
    IF Lower(state) \notin {valid_states[i] : i \in 1..Len(valid_states)}
    THEN Sent(<<>>, Returns([kind |-> "InvalidState", state |-> state,
                             valid_options |-> valid_states]))
    ELSE IF Lower(state) = STR_active THEN list_active_alerts(up)
    ELSE IF Lower(state) = STR_suppressed THEN list_suppressed_alerts(up)
    ELSE list_alerts(up)

RECURSIVE FirstPassing_NoBreak(_, _)
\* FirstPassing without the break: the last passing source wins.
FirstPassing_NoBreak(ams, cluster_filter) ==
    IF Len(ams) = 0 THEN [status |-> "none", cluster |-> STR_empty]
    ELSE LET cluster == Get(ams[Len(ams)].cluster, STR_unknown)
             front == SubSeq(ams, 1, Len(ams) - 1)
         IN IF FirstPassing_NoBreak(front, cluster_filter).status = "raise"
            THEN [status |-> "raise", cluster |-> STR_empty]
            ELSE IF cluster_filter # STR_empty /\ cluster = None
            THEN [status |-> "raise", cluster |-> STR_empty]
            ELSE IF cluster_filter # STR_empty
                    /\ ~Contains(Lower(cluster_filter), Lower(cluster))
            THEN FirstPassing_NoBreak(front, cluster_filter)
            ELSE [status |-> "found", cluster |-> cluster]

RECURSIVE FirstPassing(_, _)
\* for am in alertmanagers: the first source that passes the cluster filter
\* (the loop breaks there); raised when the filter meets a null cluster.
FirstPassing(ams, cluster_filter) ==
    IF Len(ams) = 0 THEN [status |-> "none", cluster |-> STR_empty]
    ELSE LET cluster == Get(Head(ams).cluster, STR_unknown)
         IN IF cluster_filter # STR_empty /\ cluster = None
            THEN [status |-> "raise", cluster |-> STR_empty]
            ELSE IF cluster_filter # STR_empty
                    /\ ~Contains(Lower(cluster_filter), Lower(cluster))
            THEN FirstPassing(Tail(ams), cluster_filter)
            ELSE [status |-> "found", cluster |-> cluster]

\* cluster_stats: per cluster, in insertion order, the matches attributed to
\* it and those whose lowered state is active or suppressed.  The lowered
\* state is looked up among the keys of the counters ("if state in
\* cluster_stats[cluster]"), so a state "total" adds to total once more.
ClusterStats(matching_alerts) ==
    LET by_cluster == GroupByKey([i \in 1..Len(matching_alerts) |->
                          [key |-> matching_alerts[i].cluster,
                           val |-> matching_alerts[i]]], <<>>)
        n(xs, s) == Cardinality({i \in 1..Len(xs) : Lower(xs[i].state) = s})
    IN [i \in 1..Len(by_cluster) |->
          [key |-> by_cluster[i].key,
           val |-> [total |-> Len(by_cluster[i].val) + n(by_cluster[i].val, STR_total),
                    active |-> n(by_cluster[i].val, STR_active),
                    suppressed |-> n(by_cluster[i].val, STR_suppressed)]]]

\* Attributed without the cluster filter: every selected alert is a match of
\* the cluster of its first source.
Attributed_Unfiltered(pairs, cluster_filter, no_container) ==
    LET hits == SelectSeq(pairs, LAMBDA p : Len(p.alert.alertmanager) > 0)
    IN [i \in 1..Len(hits) |->
          [alert_name |-> PairsGet(hits[i].group.labels, STR_alertname, STR_unknown),
           cluster |-> Get(hits[i].alert.alertmanager[1].cluster, STR_unknown),
           state |-> Get(hits[i].alert.state, STR_unknown),
           severity |-> PairsGet(hits[i].group.labels, STR_severity, STR_unknown),
           namespace |-> PairsGet(hits[i].alert.labels, STR_namespace, STR_NA),
           instance |-> PairsGet(hits[i].alert.labels, STR_instance, STR_NA),
           container |-> PairsGet(hits[i].alert.labels, STR_container, no_container),
           description |-> PairsGet(hits[i].alert.annotations, STR_description, Absent)]]

\* The matches of the alerts selected by a search: one record for each
\* selected alert that has a source passing the filter.
Attributed(pairs, cluster_filter, no_container) ==
    LET found(p) == FirstPassing(p.alert.alertmanager, cluster_filter).status = "found"
        hits == SelectSeq(pairs, found)
    IN [i \in 1..Len(hits) |->
          [alert_name |-> PairsGet(hits[i].group.labels, STR_alertname, STR_unknown),
           cluster |-> FirstPassing(hits[i].alert.alertmanager, cluster_filter).cluster,
           state |-> Get(hits[i].alert.state, STR_unknown),
           severity |-> PairsGet(hits[i].group.labels, STR_severity, STR_unknown),
           namespace |-> PairsGet(hits[i].alert.labels, STR_namespace, STR_NA),
           instance |-> PairsGet(hits[i].alert.labels, STR_instance, STR_NA),
           container |-> PairsGet(hits[i].alert.labels, STR_container, no_container),
           description |-> PairsGet(hits[i].alert.annotations, STR_description, Absent)]]

\* The attribution loop raises: the filter meets a null cluster, or an
\* attributed alert has a null state.
AttributionRaises(pairs, cluster_filter) ==
    \E i \in 1..Len(pairs) :
        LET fp == FirstPassing(pairs[i].alert.alertmanager, cluster_filter)
        IN \/ fp.status = "raise"
           \/ fp.status = "found" /\ pairs[i].alert.state = None

Breakdown(cluster_stats) ==
    LET sorted == SortedByKey(cluster_stats)
    IN [i \in 1..Len(sorted) |->
          [cluster |-> sorted[i].key, total |-> sorted[i].val.total,
           active |-> sorted[i].val.active, suppressed |-> sorted[i].val.suppressed]]

\* Limit to 10 per cluster.
MultiClusterCap == 10

\* Longest description get_alert_details_multi_cluster shows in full.
MultiDescriptionCap == 150

get_alert_details_multi_cluster(up, alert_name, cluster_filter) ==
    LET f == post_alerts(up)
        groups == AllGroups(f.data)
        alertname(group) == PairsGet(group.labels, STR_alertname, STR_empty)
        matches(group) == Lower(alertname(group)) = Lower(alert_name)
        pairs == GroupAlertPairs(SelectSeq(groups, matches))
        matching_alerts == Attributed(pairs, cluster_filter, STR_NA)
        cluster_stats == ClusterStats(matching_alerts)
        clusters_alerts == SortedByKey(GroupByKey([i \in 1..Len(matching_alerts) |->
                              [key |-> matching_alerts[i].cluster,
                               val |-> matching_alerts[i]]], <<>>))
        shown(alerts) == Take(alerts, MultiClusterCap)
        line(a) == [alert_name |-> a.alert_name, state |-> a.state,
                    namespace |-> a.namespace, instance |-> a.instance,
                    container |-> a.container,
                    description |-> IF a.description = Absent THEN Absent
                                    ELSE Truncated(a.description, MultiDescriptionCap)]
        section(item) ==
            [cluster |-> item.key,
             shown |-> [i \in 1..Len(shown(item.val)) |-> line(item.val[i])],
             more |-> IF Len(item.val) > MultiClusterCap
                      THEN Len(item.val) - MultiClusterCap ELSE 0]
        count(s) == Cardinality({i \in 1..Len(matching_alerts) :
                                    Lower(matching_alerts[i].state) = s})
    IN Sent(<<PostAlerts>>,
            IF f.error # NoError THEN Returns(f.error)
            ELSE IF \E i \in 1..Len(groups) : alertname(groups[i]) = None
                 THEN Returns(ErrorConnecting(ExcNoneLower))
            ELSE IF AttributionRaises(pairs, cluster_filter)
                 THEN Returns(ErrorConnecting(ExcNoneLower))
            ELSE IF Len(matching_alerts) = 0
                 THEN Returns([kind |-> "NoInstancesOfAlert", alert_name |-> alert_name,
                               cluster_filter |-> cluster_filter])
            ELSE IF SortRaises(cluster_stats) THEN Returns(ErrorConnecting(ExcSortNone))
            ELSE IF \E i \in 1..Len(clusters_alerts) :
                        \E j \in 1..Len(shown(clusters_alerts[i].val)) :
                            clusters_alerts[i].val[j].description = None
                 THEN Returns(ErrorConnecting(ExcNoneLen))
            ELSE Returns([kind |-> "MultiClusterDetails", alert_name |-> alert_name,
                          cluster_filter |-> cluster_filter,
                          severity |-> matching_alerts[1].severity,
                          total_instances |-> Len(matching_alerts),
                          clusters_affected |-> Len(cluster_stats),
                          breakdown |-> Breakdown(cluster_stats),
                          clusters |-> [i \in 1..Len(clusters_alerts) |->
                                           section(clusters_alerts[i])],
                          active_count |-> count(STR_active),
                          suppressed_count |-> count(STR_suppressed)]))

\* Limit to 8 instances per alert name.
SearchCap == 8

search_alerts_by_container(up, container_name, cluster_filter) ==
    LET f == post_alerts(up)
        all == GroupAlertPairs(AllGroups(f.data))
        alert_container(p) == PairsGet(p.alert.labels, STR_container, STR_empty)
        matches(p) == Contains(Lower(container_name), Lower(alert_container(p)))
        pairs == SelectSeq(all, matches)
        \* "container": alert_container, which is "" where the label is absent
        matching_alerts == Attributed(pairs, cluster_filter, STR_empty)
        cluster_stats == ClusterStats(matching_alerts)
        clusters_alerts == SortedByKey(GroupByKey([i \in 1..Len(matching_alerts) |->
                              [key |-> matching_alerts[i].cluster,
                               val |-> matching_alerts[i]]], <<>>))
        by_name(alerts) == GroupByKey([i \in 1..Len(alerts) |->
                              [key |-> alerts[i].alert_name, val |-> alerts[i]]], <<>>)
        n(xs, s) == Cardinality({i \in 1..Len(xs) : Lower(xs[i].state) = s})
        \* container_info = f"{container} ({namespace})", shown once
        info(a) == <<a.container, a.namespace>>
        containers_shown(alerts) ==
            LET top == Take(alerts, SearchCap)
                first(i) == \A j \in 1..(i - 1) : info(top[j]) # info(top[i])
                shown == SelectSeq([i \in 1..Len(top) |-> i], first)
            IN [i \in 1..Len(shown) |->
                  [container |-> top[shown[i]].container,
                   namespace |-> top[shown[i]].namespace,
                   instance |-> top[shown[i]].instance,
                   state |-> top[shown[i]].state]]
        group(item) ==
            [alert_name |-> item.key,
             count |-> Len(item.val),
             severity |-> item.val[1].severity,
             active |-> n(item.val, STR_active),
             suppressed |-> n(item.val, STR_suppressed),
             shown |-> containers_shown(item.val),
             more |-> IF Len(item.val) > SearchCap
                      THEN Len(item.val) - Len(containers_shown(item.val)) ELSE 0]
        section(item) ==
            LET sorted == SortedByKey(by_name(item.val))
            IN [cluster |-> item.key,
                groups |-> [i \in 1..Len(sorted) |-> group(sorted[i])]]
    IN Sent(<<PostAlerts>>,
            IF f.error # NoError THEN Returns(f.error)
            ELSE IF \E i \in 1..Len(all) : alert_container(all[i]) = None
                 THEN Returns(ErrorConnecting(ExcNoneLower))
            ELSE IF AttributionRaises(pairs, cluster_filter)
                 THEN Returns(ErrorConnecting(ExcNoneLower))
            ELSE IF Len(matching_alerts) = 0
                 THEN Returns([kind |-> "NoAlertsForContainer",
                               container_name |-> container_name,
                               cluster_filter |-> cluster_filter])
            ELSE IF SortRaises(cluster_stats) THEN Returns(ErrorConnecting(ExcSortNone))
            ELSE IF \E i \in 1..Len(clusters_alerts) :
                        SortRaises(by_name(clusters_alerts[i].val))
                 THEN Returns(ErrorConnecting(ExcSortNone))
            ELSE Returns([kind |-> "ContainerSearch", container_name |-> container_name,
                          cluster_filter |-> cluster_filter,
                          cluster_summary |-> Breakdown(cluster_stats),
                          clusters |-> [i \in 1..Len(clusters_alerts) |->
                                           section(clusters_alerts[i])],
                          total_alerts |-> Len(matching_alerts),
                          total_clusters |-> Len(cluster_stats)]))

-----------------------------------------------------------------------------
(* Invocations.                                                            *)

\* Arguments the callers pass.
ClusterArgs == {STR_prod, STR_dev}
NameArgs == {STR_crash, STR_HighMem}
StateArgs == {STR_active, STR_Active, STR_suppressed, STR_all, STR_ALL, STR_bogus, STR_empty}
FilterArgs == {STR_empty, STR_prod, STR_dev}
ContainerArgs == {STR_NGINX, STR_GIN, STR_ns1, STR_empty}

Init ==
    /\ upstream \in Upstreams
    /\ pc = "idle"
    /\ op = "none"
    /\ args = <<>>
    /\ result = NoResult
    /\ raised = FALSE
    /\ requests = <<>>
    /\ calls = <<>>
    /\ served = <<>>
    /\ heap = NoHeap

\* One whole invocation of a tool: its arguments, the requests it sent and
\* what it handed back.
Invoke(name, a, r) ==
    /\ pc = "idle"
    /\ pc' = "done"
    /\ op' = name
    /\ args' = a
    /\ requests' = r.requests
    /\ result' = r.value
    /\ raised' = r.raised
    /\ UNCHANGED <<upstream, calls, served, heap>>

CheckKarma == Invoke("check_karma", <<>>, check_karma(upstream))

ListAlerts == Invoke("list_alerts", <<>>, list_alerts(upstream))

GetAlertsSummary == Invoke("get_alerts_summary", <<>>, get_alerts_summary(upstream))

ListClusters == Invoke("list_clusters", <<>>, list_clusters(upstream))

ListAlertsByCluster ==
    \E c \in ClusterArgs :
        Invoke("list_alerts_by_cluster", <<c>>, list_alerts_by_cluster(upstream, c))

GetAlertDetails ==
    \E n \in NameArgs :
        Invoke("get_alert_details", <<n>>, get_alert_details(upstream, n))

ListActiveAlerts == Invoke("list_active_alerts", <<>>, list_active_alerts(upstream))

ListSuppressedAlerts ==
    Invoke("list_suppressed_alerts", <<>>, list_suppressed_alerts(upstream))

GetAlertsByState ==
    \E s \in StateArgs :
        Invoke("get_alerts_by_state", <<s>>, get_alerts_by_state(upstream, s))

GetAlertDetailsMultiCluster ==
    \E n \in NameArgs, cf \in FilterArgs :
        Invoke("get_alert_details_multi_cluster", <<n, cf>>,
               get_alert_details_multi_cluster(upstream, n, cf))

SearchAlertsByContainer ==
    \E c \in ContainerArgs, cf \in FilterArgs :
        Invoke("search_alerts_by_container", <<c, cf>>,
               search_alerts_by_container(upstream, c, cf))

\* The caller takes the string; nothing of the invocation survives it.
Return ==
    /\ pc = "done"
    /\ pc' = "idle"
    /\ op' = "none"
    /\ args' = <<>>
    /\ result' = NoResult
    /\ raised' = FALSE
    /\ requests' = <<>>
    /\ UNCHANGED <<upstream, calls, served, heap>>

Next ==
    \/ CheckKarma
    \/ ListAlerts
    \/ GetAlertsSummary
    \/ ListClusters
    \/ ListAlertsByCluster
    \/ GetAlertDetails
    \/ ListActiveAlerts
    \/ ListSuppressedAlerts
    \/ GetAlertsByState
    \/ GetAlertDetailsMultiCluster
    \/ SearchAlertsByContainer
    \/ Return

Spec == Init /\ [][Next]_vars

-----------------------------------------------------------------------------
(* The label normalizer on its own: extract_label_value applied to label   *)
(* sequences, keys and defaults.                                           *)

\* Longest label sequence generated.
MaxLabels == 2

LabelPairs ==
    {Pair(n, v) : n \in {STR_severity, STR_Severity, STR_alertname},
                  v \in {STR_critical, STR_warning, Absent}}
LabelLists == SeqsUpTo(LabelPairs, MaxLabels)
LabelKeys == {STR_severity, STR_alertname, STR_namespace}
LabelDefaults == {STR_unknown, STR_none}

InitNormalizer ==
    /\ upstream = Outcome("ok", 200, "", NoData, 200)
    /\ pc = "idle"
    /\ op = "none"
    /\ args = <<>>
    /\ result = NoResult
    /\ raised = FALSE
    /\ requests = <<>>
    /\ calls = <<>>
    /\ served = <<>>
    /\ heap = NoHeap

ExtractLabelValue ==
    \E labels \in LabelLists, name \in LabelKeys, default \in LabelDefaults :
        Invoke("extract_label_value", <<labels, name, default>>,
               Sent(<<>>, Returns([kind |-> "Value",
                                   value |-> extract_label_value(labels, name, default)])))

NextNormalizer ==
    \/ ExtractLabelValue
    \/ Return

SpecNormalizer == InitNormalizer /\ [][NextNormalizer]_vars

-----------------------------------------------------------------------------
(* Concurrent invocations.  A tool is a coroutine: it runs to its request, *)
(* is suspended while the upstream answers, and on the answer runs to its  *)
(* return without another suspension.  Other invocations run in between,   *)
(* and the upstream may hold another snapshot by the time it answers.      *)

\* Invocations in flight at a time.
MaxCalls == 2

Callers == 1..MaxCalls

\* What the named tool hands back on the given upstream answer.
Run(name, a, up) ==
    CASE name = "check_karma" -> check_karma(up)
      [] name = "list_alerts" -> list_alerts(up)
      [] name = "get_alerts_summary" -> get_alerts_summary(up)
      [] name = "list_clusters" -> list_clusters(up)
      [] name = "list_alerts_by_cluster" -> list_alerts_by_cluster(up, a[1])
      [] name = "get_alert_details" -> get_alert_details(up, a[1])
      [] name = "list_active_alerts" -> list_active_alerts(up)
      [] name = "list_suppressed_alerts" -> list_suppressed_alerts(up)
      [] name = "get_alerts_by_state" -> get_alerts_by_state(up, a[1])
      [] name = "get_alert_details_multi_cluster" ->
            get_alert_details_multi_cluster(up, a[1], a[2])
      [] name = "search_alerts_by_container" ->
            search_alerts_by_container(up, a[1], a[2])

\* The invocations run side by side: those of test_concurrent_requests, and
\* get_alerts_by_state, which returns without a request on an invalid state.
ConcurrentCalls ==
    {[op |-> n, args |-> <<>>] :
        n \in {"check_karma", "list_alerts", "get_alerts_summary",
                "list_active_alerts", "list_suppressed_alerts"}}
    \cup {[op |-> "get_alerts_by_state", args |-> <<STR_bogus>>]}

\* The answers the upstream gives over time.
ConcurrentUpstreams ==
    {Outcome("status", 500, "", NoData, 503),
     Outcome("ok", 200, "", Snapshot(<<>>, Instances), 200),
     Outcome("ok", 200, "",
             Snapshot(<<Group(GL_crit,
                              <<Alert(STR_active, NsLabels, <<>>, <<Source(STR_prod)>>),
                                Alert(STR_suppressed, NsLabels, <<>>, <<Source(STR_dev)>>)>>)>>,
                      Instances), 200)}

NoResponse == [kind |-> "none"]

NoCall == [pc |-> "idle", op |-> "none", args |-> <<>>, response |-> NoResponse,
           outcome |-> Sent(<<>>, Raises(""))]

\* The invocation returns before it sends any request.
ReturnsAtOnce(c) ==
    c.op = "get_alerts_by_state" /\ Lower(c.args[1]) \notin {STR_active, STR_suppressed, STR_all}

InitConcurrent ==
    /\ upstream \in ConcurrentUpstreams
    /\ pc = "idle"
    /\ op = "none"
    /\ args = <<>>
    /\ result = NoResult
    /\ raised = FALSE
    /\ requests = <<>>
    /\ calls = [p \in Callers |-> NoCall]
    /\ served = <<>>
    /\ heap = NoHeap

\* The caller starts a tool, which runs to its request and is suspended
\* there, or returns at once.
Call(p) ==
    /\ calls[p].pc = "idle"
    /\ \E c \in ConcurrentCalls :
          calls' = [calls EXCEPT ![p] =
                      IF ReturnsAtOnce(c)
                      THEN [pc |-> "done", op |-> c.op, args |-> c.args,
                            response |-> NoResponse,
                            outcome |-> Run(c.op, c.args, NoResponse)]
                      ELSE [pc |-> "awaiting", op |-> c.op, args |-> c.args,
                            response |-> NoResponse, outcome |-> NoCall.outcome]]
    /\ UNCHANGED <<upstream, pc, op, args, result, raised, requests, served, heap>>

\* The upstream answers the request of the invocation.
Respond(p) ==
    /\ calls[p].pc = "awaiting"
    /\ calls' = [calls EXCEPT ![p].pc = "received", ![p].response = upstream]
    /\ UNCHANGED <<upstream, pc, op, args, result, raised, requests, served, heap>>

\* Received reading an answer held in common: that of another invocation,
\* where one has been answered.
Received_Shared(p) ==
    LET others == {q \in Callers \ {p} : calls[q].response # NoResponse}
    IN IF others = {} THEN calls[p].response
       ELSE calls[CHOOSE q \in others : TRUE].response

\* response = await client.post(...): the answer the invocation works on.
Received(p) == calls[p].response

\* The invocation is resumed and runs to its return.
Resume(p) ==
    /\ calls[p].pc = "received"
    /\ calls' = [calls EXCEPT ![p].pc = "done",
                              ![p].outcome = Run(calls[p].op, calls[p].args, Received(p))]
    /\ UNCHANGED <<upstream, pc, op, args, result, raised, requests, served, heap>>

\* The caller takes the string.
Finish(p) ==
    /\ calls[p].pc = "done"
    /\ calls' = [calls EXCEPT ![p] = NoCall]
    /\ UNCHANGED <<upstream, pc, op, args, result, raised, requests, served, heap>>

\* Karma holds another snapshot, or fails.
UpstreamChanges ==
    /\ upstream' \in ConcurrentUpstreams \ {upstream}
    /\ UNCHANGED <<pc, op, args, result, raised, requests, calls, served, heap>>

NextConcurrent ==
    \/ \E p \in Callers : Call(p)
    \/ \E p \in Callers : Respond(p)
    \/ \E p \in Callers : Resume(p)
    \/ \E p \in Callers : Finish(p)
    \/ UpstreamChanges

SpecConcurrent == InitConcurrent /\ [][NextConcurrent]_vars

-----------------------------------------------------------------------------
(* Silences.  The snapshot of POST /alerts.json also holds the silences of *)
(* every cluster and the public address of every Alertmanager.  The        *)
(* upstream reacts to what it is sent: a request to an Alertmanager        *)
(* silence endpoint would change the silences it holds.                    *)

STR_2h == <<50, 104>>
STR_30M == <<51, 48, 77>>
STR_soon == <<115, 111, 111, 110>>
STR_comment == <<118, 105, 97, 32, 77, 67, 80>>
STR_team_eq_a_x == <<116, 101, 97, 109, 61, 97, 44, 120>>
STR_uri == <<104, 116, 116, 112, 58, 47, 47, 97, 109>>
STR_ab12 == <<97, 98, 49, 50>>
STR_ab == <<97, 98>>
STR_cd34 == <<99, 100, 51, 52>>
STR_ops == <<111, 112, 115>>

ExcNoneGet == "'NoneType' object has no attribute 'get'"
ExcNoneIn == "argument of type 'NoneType' is not iterable"

PostSilences == "POST /api/v2/silences"
DeleteSilences == "DELETE /api/v2/silence/{id}"

Silence(comment, createdBy) == [comment |-> comment, createdBy |-> createdBy]
Item(k, v) == [key |-> k, val |-> v]
SilenceInstance(c, uri) ==
    [cluster |-> c, name |-> STR_am1, error |-> STR_empty, publicURI |-> uri,
     version |-> Absent]

\* A JSON member that holds an object: missing, null, or its items.
NoMember == [json |-> "absent"]
Null == [json |-> "null"]
Object(items) == [json |-> "object", items |-> items]

\* data["silences"]: per cluster, the silences by id.
SilenceDicts ==
    {NoMember, Null, Object(<<>>),
     Object(<<Item(STR_prod, Object(<<Item(STR_ab12, Silence(STR_comment, STR_ops)),
                                      Item(STR_cd34, Silence(Absent, Absent))>>))>>),
     Object(<<Item(STR_prod, Object(<<>>)), Item(STR_qa, Null)>>)}

\* data["upstreams"]["instances"]
InstanceLists ==
    {<<>>,
     <<SilenceInstance(STR_prod, STR_uri)>>,
     <<SilenceInstance(STR_dev, Absent), SilenceInstance(STR_prod, STR_uri)>>,
     <<SilenceInstance(None, STR_uri)>>}

SilenceSnapshots ==
    {[grids |-> <<>>, instances |-> i, silences |-> s] :
        i \in InstanceLists, s \in SilenceDicts}

SilenceUpstreams ==
    {Outcome("raises", 0, "Connection refused", NoData, 0),
     Outcome("status", 500, "", NoData, 503),
     Outcome("unparseable", 200, "", NoData, 200),
     Outcome("notobject", 200, "", NoData, 200)}
    \cup {Outcome("ok", 200, "", d, 200) : d \in SilenceSnapshots}

\* What the upstream holds after it was sent the requests: the read requests
\* leave it as it is, a request to a silence endpoint changes its silences.
Served(up, reqs) ==
    IF up.kind # "ok" \/ \A i \in 1..Len(reqs) : reqs[i] \in {PostAlerts, GetHealth}
    THEN up
    ELSE [up EXCEPT !.data.silences =
             IF \E i \in 1..Len(reqs) : reqs[i] = PostSilences
             THEN Object(Append(IF @.json = "object" THEN @.items ELSE <<>>,
                                Item(STR_empty, Object(<<>>))))
             ELSE Object(<<>>)]

IsDigit(c) == c \in 48..57

RECURSIVE LeadingDigits(_)
\* The length of the longest prefix of digits.
LeadingDigits(s) ==
    IF Len(s) = 0 \/ ~IsDigit(Head(s)) THEN 0 ELSE 1 + LeadingDigits(Tail(s))

RECURSIVE IntOf(_, _)
\* int(digits)
IntOf(s, acc) == IF Len(s) = 0 THEN acc ELSE IntOf(Tail(s), 10 * acc + (Head(s) - 48))

NoMatch == [matched |-> FALSE]

\* re.match(r"(\d+)([hdm])", duration.lower()): the amount and the unit, or
\* no match where the text does not start so.
DurationMatch(duration) ==
    LET s == Lower(duration)
        n == LeadingDigits(s)
    IN IF n >= 1 /\ Len(s) > n /\ s[n + 1] \in {104, 100, 109}
       THEN [matched |-> TRUE, amount |-> IntOf(SubSeq(s, 1, n), 0), unit |-> s[n + 1]]
       ELSE NoMatch

\* timedelta(hours | minutes | days = amount), in minutes
Delta(m) ==
    CASE m.unit = 104 -> 60 * m.amount
      [] m.unit = 109 -> m.amount
      [] OTHER -> 1440 * m.amount

RECURSIVE Split(_, _)
\* s.split(sep), for a separator of one character
Split(s, sep) ==
    IF \A i \in 1..Len(s) : s[i] # sep THEN <<s>>
    ELSE LET i == CHOOSE k \in 1..Len(s) : s[k] = sep /\ \A j \in 1..(k - 1) : s[j] # sep
         IN <<SubSeq(s, 1, i - 1)>> \o Split(SubSeq(s, i + 1, Len(s)), sep)

\* silence_matchers: the alertname matcher and one for each "key=value"
\* of the matchers text.
SilenceMatchers(matchers) ==
    1 + (IF Len(matchers) = 0 THEN 0
         ELSE Len(SelectSeq(Split(matchers, 44), LAMBDA part : Contains(<<61>>, part))))

\* for upstream in upstreams: if cluster.lower() in
\* upstream.get("cluster", "").lower(): alertmanager_url =
\* upstream.get("publicURI"); break
FirstInstance(upstreams, cluster) ==
    LET hits == {i \in 1..Len(upstreams) :
                    Contains(Lower(cluster), Lower(Get(upstreams[i].cluster, STR_empty)))}
    IN IF hits = {} THEN 0 ELSE CHOOSE i \in hits : \A j \in hits : i <= j

\* The loop reaches an instance whose cluster is null before it finds one.
InstanceRaises(upstreams, cluster) ==
    \E i \in 1..Len(upstreams) :
        /\ upstreams[i].cluster = None
        /\ \A j \in 1..(i - 1) :
              ~Contains(Lower(cluster), Lower(Get(upstreams[j].cluster, STR_empty)))

ErrorCreatingSilence(m) == [kind |-> "ErrorCreatingSilence", msg |-> m]
ErrorDeletingSilence(m) == [kind |-> "ErrorDeletingSilence", msg |-> m]

\* create_silence posting the prepared silence to the Alertmanager.
create_silence_Posting(up, cluster, alertname, duration, comment, matchers) ==
    IF up.kind = "ok" /\ FirstInstance(up.data.instances, cluster) # 0
    THEN Sent(<<PostAlerts, PostSilences>>,
              Returns([kind |-> "SilencePrepared", cluster |-> cluster]))
    ELSE Sent(<<PostAlerts>>, Returns(ErrorCreatingSilence("")))

create_silence(up, cluster, alertname, duration, comment, matchers) ==
    Sent(<<PostAlerts>>,
      CASE up.kind = "raises" -> Returns(ErrorCreatingSilence(up.msg))
        [] up.kind = "status" ->
              Returns([kind |-> "ErrorFetchingClusterInformation", code |-> up.code])
        [] up.kind = "unparseable" -> Returns(ErrorCreatingSilence(ExcBadJson))
        [] up.kind = "notobject" -> Returns(ErrorCreatingSilence(ExcNotObject))
        [] OTHER ->
              LET upstreams == up.data.instances
                  i == FirstInstance(upstreams, cluster)
                  alertmanager_url == IF i = 0 THEN None ELSE Get(upstreams[i].publicURI, None)
                  duration_match == DurationMatch(duration)
              IN IF InstanceRaises(upstreams, cluster)
                 THEN Returns(ErrorCreatingSilence(ExcNoneLower))
                 ELSE IF alertmanager_url \in {None, STR_empty}
                 THEN Returns([kind |-> "CouldNotFindAlertmanager", cluster |-> cluster])
                 ELSE IF ~duration_match.matched
                 THEN Returns([kind |-> "InvalidDurationFormat"])
                 ELSE Returns([kind |-> "SilencePrepared", cluster |-> cluster,
                               alertname |-> alertname, duration |-> duration,
                               minutes |-> Delta(duration_match),
                               comment |-> comment,
                               matchers |-> SilenceMatchers(matchers),
                               endpoint |-> alertmanager_url]))

delete_silence(up, silence_id, cluster) ==
    Sent(<<PostAlerts>>,
      CASE up.kind = "raises" -> Returns(ErrorDeletingSilence(up.msg))
        [] up.kind = "status" ->
              Returns([kind |-> "ErrorFetchingSilenceInformation", code |-> up.code])
        [] up.kind = "unparseable" -> Returns(ErrorDeletingSilence(ExcBadJson))
        [] up.kind = "notobject" -> Returns(ErrorDeletingSilence(ExcNotObject))
        [] OTHER ->
              LET all == IF up.data.silences = NoMember THEN Object(<<>>)
                         ELSE up.data.silences
                  of_cluster == IF all = Null THEN Null
                                ELSE DictGet(all.items, cluster, Object(<<>>))
                  silences == IF of_cluster = Null THEN <<>> ELSE of_cluster.items
                  partial == {i \in 1..Len(silences) : Contains(silence_id, silences[i].key)}
                  found == IF HasKey(silences, silence_id) THEN silence_id
                           ELSE IF partial = {} THEN Absent
                           ELSE silences[CHOOSE i \in partial : \A j \in partial : i <= j].key
              IN IF all = Null THEN Returns(ErrorDeletingSilence(ExcNoneGet))
                 ELSE IF of_cluster = Null THEN Returns(ErrorDeletingSilence(ExcNoneIn))
                 ELSE IF found = Absent
                 THEN Returns([kind |-> "SilenceNotFound", silence_id |-> silence_id,
                               cluster |-> cluster])
                 ELSE LET silence_info == DictGet(silences, found, Silence(Absent, Absent))
                      IN Returns([kind |-> "SilenceDeletion", silence_id |-> found,
                                  cluster |-> cluster,
                                  comment |-> Get(silence_info.comment, STR_NA),
                                  createdBy |-> Get(silence_info.createdBy, STR_unknown)]))

STR_NoComment == <<78, 111, 32, 99, 111, 109, 109, 101, 110, 116>>

\* Limit to 5 per cluster.
SilenceCap == 5

\* silence_id[:8]
SilenceIdCap == 8

list_silences(up, cluster) ==
    Sent(<<PostAlerts>>,
      CASE up.kind = "raises" -> Returns(ErrorConnecting(up.msg))
        [] up.kind = "status" -> Returns([kind |-> "ErrorFetchingSilences", code |-> up.code])
        [] up.kind = "unparseable" -> Returns(ErrorConnecting(ExcBadJson))
        [] up.kind = "notobject" -> Returns(ErrorConnecting(ExcNotObject))
        [] OTHER ->
              LET all == IF up.data.silences.json = "object" THEN up.data.silences.items
                         ELSE <<>>
                  silences == IF Len(cluster) = 0 THEN all
                              ELSE SelectSeq(all, LAMBDA it :
                                       Contains(Lower(cluster), Lower(it.key)))
                  listed == SelectSeq(silences, LAMBDA it :
                                it.val.json = "object" /\ Len(it.val.items) > 0)
                  Shown(it) == Take(it.val.items, SilenceCap)
              IN IF Len(all) = 0 THEN Returns([kind |-> "NoActiveSilences"])
                 ELSE IF Len(silences) = 0
                 THEN Returns([kind |-> "NoActiveSilencesForCluster", cluster |-> cluster])
                 ELSE Returns(
                   [kind |-> "ActiveSilences", cluster |-> cluster,
                    clusters |->
                      [i \in 1..Len(listed) |->
                        [name |-> listed[i].key,
                         count |-> Len(listed[i].val.items),
                         shown |-> [j \in 1..Len(Shown(listed[i])) |->
                                     [id |-> Take(Shown(listed[i])[j].key, SilenceIdCap),
                                      createdBy |-> Get(Shown(listed[i])[j].val.createdBy,
                                                        STR_unknown),
                                      comment |-> Get(Shown(listed[i])[j].val.comment,
                                                      STR_NoComment)]],
                         more |-> IF Len(listed[i].val.items) > SilenceCap
                                  THEN Len(listed[i].val.items) - SilenceCap ELSE 0]],
                    total |-> SumSeq([i \in 1..Len(listed) |-> Len(Shown(listed[i]))])]))

SilenceClusterArgs == {STR_prod, STR_Prod, STR_qa, STR_empty}
DurationArgs == {STR_2h, STR_30M, STR_soon, STR_empty}
MatcherArgs == {STR_empty, STR_team_eq_a_x}
SilenceIdArgs == {STR_ab12, STR_ab, STR_boom, STR_empty}

InitSilences ==
    /\ upstream \in SilenceUpstreams
    /\ pc = "idle"
    /\ op = "none"
    /\ args = <<>>
    /\ result = NoResult
    /\ raised = FALSE
    /\ requests = <<>>
    /\ calls = <<>>
    /\ served = <<>>
    /\ heap = NoHeap

\* One whole invocation of a silence tool, and what the upstream holds once
\* it has served the requests of the invocation.
InvokeSilence(name, a, r) ==
    /\ pc = "idle"
    /\ pc' = "done"
    /\ op' = name
    /\ args' = a
    /\ requests' = r.requests
    /\ result' = r.value
    /\ raised' = r.raised
    /\ upstream' = Served(upstream, r.requests)
    /\ UNCHANGED <<calls, served, heap>>

CreateSilence ==
    \E c \in SilenceClusterArgs, d \in DurationArgs, m \in MatcherArgs :
        InvokeSilence("create_silence", <<c, STR_Crash, d, STR_comment, m>>,
                      create_silence(upstream, c, STR_Crash, d, STR_comment, m))

DeleteSilence ==
    \E s \in SilenceIdArgs, c \in SilenceClusterArgs :
        InvokeSilence("delete_silence", <<s, c>>, delete_silence(upstream, s, c))

ListSilences ==
    \E c \in SilenceClusterArgs :
        InvokeSilence("list_silences", <<c>>, list_silences(upstream, c))

NextSilences ==
    \/ ListSilences
    \/ CreateSilence
    \/ DeleteSilence
    \/ Return

SpecSilences == InitSilences /\ [][NextSilences]_vars

-----------------------------------------------------------------------------
(* The HTTP server (src/src/karma_mcp/http_server.py): REST endpoints that *)
(* wrap the tools, and three generic dispatchers that run the tool a       *)
(* request names.  A handler is one action: it receives the request body,  *)
(* runs the tool it selects against the upstream and answers with a status *)
(* and a JSON body.  The server keeps nothing between requests; served is  *)
(* the record of what POST /mcp/sse has been asked so far.                 *)

\* JSON values of request bodies: an unparseable body, an array, a string,
\* a number, null, and the objects below.
Unparseable == [json |-> "unparseable"]
JsonArray == [json |-> "array"]
Text(s) == [json |-> "string", text |-> s]
Name(n) == [json |-> "string", name |-> n]
Num(n) == [json |-> "number", n |-> n]

\* The params of tools/call (and the body of POST /mcp/execute): the tool
\* named and its arguments.
ToolCall(name, arguments) == [json |-> "object", name |-> name, arguments |-> arguments]

\* A JSON-RPC request object.
Request(method, id, params) ==
    [json |-> "object", method |-> method, id |-> id, params |-> params]

\* obj.get(key), of a JSON member: None where the member is missing.
Value(member) == IF member = NoMember THEN Null ELSE member

\* arguments.get(key), where arguments came from .get("arguments", {}).
Argument(arguments, key) ==
    IF arguments.json = "object" THEN DictGet(arguments.items, key, Null) ELSE Null

\* not value
Falsy(v) == v = Null \/ (v.json = "string" /\ v = Text(STR_empty)) \/ v = Name("")

\* str(value), of a name or a method
NameText(v) == IF v.json = "string" THEN v.name ELSE "None"

\* What a dispatcher did with the call: refused it before any tool ran
\* (ValueError, HTTPException), failed on its arguments (AttributeError), or
\* awaited the tool.
Rejected(m) == [kind |-> "rejected", msg |-> m, requests |-> <<>>]
Failed(m) == [kind |-> "failed", msg |-> m, requests |-> <<>>]
\* Awaited taking a tool that raised for one that returned nothing.
Awaited_Swallowing(r) ==
    [kind |-> "returned", msg |-> r.exc, value |-> r.value, requests |-> r.requests]

Awaited(r) ==
    [kind |-> IF r.raised THEN "raised" ELSE "returned", msg |-> r.exc,
     value |-> r.value, requests |-> r.requests]

\* The if/elif chain on tool_name, the same in the three dispatchers.
dispatch(tool_name, arguments, up) ==
    LET name == IF tool_name.json = "string" THEN tool_name.name ELSE "None"
        cluster_filter ==
            IF Argument(arguments, "cluster_filter").json = "string"
            THEN Argument(arguments, "cluster_filter").text ELSE STR_empty
        Required(key, r) ==
            IF arguments = Null THEN Failed(ExcNoneGet)
            ELSE IF Falsy(Argument(arguments, key))
            THEN Rejected(key \o " parameter required")
            ELSE Awaited(r)
    IN CASE name = "check_karma" -> Awaited(check_karma(up))
         [] name = "list_alerts" -> Awaited(list_alerts(up))
         [] name = "get_alerts_summary" -> Awaited(get_alerts_summary(up))
         [] name = "list_clusters" -> Awaited(list_clusters(up))
         [] name = "list_alerts_by_cluster" ->
               Required("cluster_name",
                        list_alerts_by_cluster(up, Argument(arguments, "cluster_name").text))
         [] name = "get_alert_details" ->
               Required("alert_name",
                        get_alert_details(up, Argument(arguments, "alert_name").text))
         [] name = "list_active_alerts" -> Awaited(list_active_alerts(up))
         [] name = "list_suppressed_alerts" -> Awaited(list_suppressed_alerts(up))
         [] name = "get_alerts_by_state" ->
               Required("state", get_alerts_by_state(up, Argument(arguments, "state").text))
         [] name = "search_alerts_by_container" ->
               Required("container_name",
                        search_alerts_by_container(
                            up, Argument(arguments, "container_name").text, cluster_filter))
         [] name = "get_alert_details_multi_cluster" ->
               Required("alert_name",
                        get_alert_details_multi_cluster(
                            up, Argument(arguments, "alert_name").text, cluster_filter))
         [] OTHER -> Rejected("Unknown tool: " \o name)

\* What a handler answers: the HTTP status and body, whether an exception
\* left the handler, and the upstream requests made on the way.
Http(status, body, reqs) ==
    [status |-> status, body |-> body, escaped |-> FALSE, requests |-> reqs]
Escapes(exc, reqs) ==
    [status |-> 500, body |-> [detail |-> exc], escaped |-> TRUE, requests |-> reqs]

JsonRpcResult(id, res) == [jsonrpc |-> "2.0", id |-> id, result |-> res]
\* JsonRpcError answering with a null id.
JsonRpcError_NullId(id, code, message) ==
    [jsonrpc |-> "2.0", id |-> Null, error |-> [code |-> code, message |-> message]]

JsonRpcError(id, code, message) ==
    [jsonrpc |-> "2.0", id |-> id, error |-> [code |-> code, message |-> message]]

ToolExecutionError == -32000
MethodNotFound == -32601
InternalError == -32603

InitializeResult ==
    [protocolVersion |-> "2025-06-18", capabilities |-> "tools",
     serverInfo |-> "karma-mcp 0.4.0"]

\* The tools of tools/list, each with its required parameters.
ToolsList ==
    <<[name |-> "check_karma", required |-> <<>>],
      [name |-> "list_alerts", required |-> <<>>],
      [name |-> "get_alerts_summary", required |-> <<>>],
      [name |-> "list_clusters", required |-> <<>>],
      [name |-> "list_alerts_by_cluster", required |-> <<"cluster_name">>],
      [name |-> "get_alert_details", required |-> <<"alert_name">>],
      [name |-> "list_active_alerts", required |-> <<>>],
      [name |-> "list_suppressed_alerts", required |-> <<>>],
      [name |-> "get_alerts_by_state", required |-> <<"state">>],
      [name |-> "search_alerts_by_container", required |-> <<"container_name">>],
      [name |-> "get_alert_details_multi_cluster", required |-> <<"alert_name">>]>>

\* The answer of the outermost except clause: data.get("id", None) if "data"
\* in locals() else None.  Where the body was parsed and holds no object the
\* lookup of the id raises in its turn, and that exception leaves the handler.
ProtocolError(data, exc) ==
    IF data.json = "unparseable"
    THEN Http(200, JsonRpcError(Null, InternalError, "Internal error: " \o exc), <<>>)
    ELSE IF data.json # "object" THEN Escapes(ExcNotObject, <<>>)
    ELSE Http(200, JsonRpcError(Value(data.id), InternalError, "Internal error: " \o exc),
              <<>>)

\* POST /mcp/sse
mcp_jsonrpc_endpoint(data, up) ==
    IF data.json = "unparseable" THEN ProtocolError(data, ExcBadJson)
    ELSE IF data.json # "object" THEN ProtocolError(data, ExcNotObject)
    ELSE LET method == Value(data.method)
             id == Value(data.id)
         IN CASE method = Name("initialize") ->
                   Http(200, JsonRpcResult(id, InitializeResult), <<>>)
              [] method = Name("tools/list") ->
                   Http(200, JsonRpcResult(id, [tools |-> ToolsList]), <<>>)
              [] method = Name("tools/call") ->
                   IF data.params # NoMember /\ data.params.json # "object"
                   THEN ProtocolError(data, ExcNoneGet)
                   ELSE LET params == IF data.params = NoMember
                                      THEN ToolCall(NoMember, NoMember) ELSE data.params
                            answer(d) ==
                                IF d.kind = "returned"
                                THEN Http(200, JsonRpcResult(id, [content |-> d.value]),
                                          d.requests)
                                ELSE Http(200, JsonRpcError(id, ToolExecutionError, d.msg),
                                          d.requests)
                        IN answer(dispatch(Value(params.name), params.arguments, up))
              [] method = Name("notifications/initialized") -> Http(200, Null, <<>>)
              [] OTHER ->
                   Http(200, JsonRpcError(id, MethodNotFound,
                                          "Method not found: " \o NameText(method)), <<>>)

\* POST /mcp/tools/{tool_name}: params is None where the request has no body.
mcp_tool_endpoint(tool_name, params, up) ==
    LET answer(d) ==
            IF d.kind = "returned"
            THEN Http(200, [success |-> TRUE, result |-> d.value], d.requests)
            ELSE Http(400, [detail |-> d.msg], d.requests)
    IN answer(dispatch(Name(tool_name),
                       IF params \in {NoMember, Null} THEN Object(<<>>) ELSE params, up))

ToolResult(tool, success, res, error) ==
    [type |-> "tool_result", tool |-> tool, success |-> success, result |-> res,
     error |-> error]

\* POST /mcp/execute: the body names the tool under "tool" and its arguments
\* under "params".
execute_tool_sse(data, up) ==
    IF data.json = "unparseable"
    THEN Http(200, ToolResult(Name("unknown"), FALSE, NoResult, ExcBadJson), <<>>)
    ELSE IF data.json # "object"
    THEN Http(200, ToolResult(Name("unknown"), FALSE, NoResult, ExcNotObject), <<>>)
    ELSE LET tool_name == Value(data.name)
             answer(d) ==
                 IF d.kind = "rejected" THEN Http(400, [detail |-> d.msg], d.requests)
                 ELSE IF d.kind = "returned"
                 THEN Http(200, ToolResult(tool_name, TRUE, d.value, ""), d.requests)
                 ELSE Http(200, ToolResult(tool_name, FALSE, NoResult, d.msg), d.requests)
         IN IF Falsy(tool_name) THEN Http(400, [detail |-> "Tool name required"], <<>>)
            ELSE answer(dispatch(tool_name, data.arguments, up))

EmptyString == [kind |-> "EmptyString"]

\* MCPResponse(success, data, error): error is the empty sequence for None.
MCPResponse(success, data, error) == [success |-> success, data |-> data, error |-> error]

\* rest_endpoint without its except clause: the exception of the tool leaves
\* the handler.
rest_endpoint_Unguarded(r) ==
    IF r.raised THEN Escapes(r.exc, r.requests)
    ELSE Http(200, MCPResponse(TRUE, r.value, <<>>), r.requests)

\* try: result = await tool(...); return MCPResponse(success=True,
\* data=result) except Exception as e: return MCPResponse(success=False,
\* data="", error=str(e))
rest_endpoint(r) ==
    IF r.raised THEN Http(200, MCPResponse(FALSE, EmptyString, <<r.exc>>), r.requests)
    ELSE Http(200, MCPResponse(TRUE, r.value, <<>>), r.requests)

CheckMark == 10003
WarningSign == 9888
BallotX == 10007

RECURSIVE Digits(_)
\* str(n), for a natural number
Digits(n) == IF n < 10 THEN <<48 + n>> ELSE Digits(n \div 10) \o <<48 + (n % 10)>>

\* str(e), of the exceptions the request to the upstream raises
ExceptionText(m) ==
    CASE m = "Connection refused" ->
            <<67, 111, 110, 110, 101, 99, 116, 105, 111, 110, 32, 114, 101, 102, 117, 115,
              101, 100>>
      [] m = "Request timeout" ->
            <<82, 101, 113, 117, 101, 115, 116, 32, 116, 105, 109, 101, 111, 117, 116>>
      [] OTHER -> <<>>

\* The string check_karma returns.
CheckKarmaText(v) ==
    CASE v.kind = "KarmaRunning" ->
            <<CheckMark, 32, 75, 97, 114, 109, 97, 32, 105, 115, 32, 114, 117, 110, 110,
              105, 110, 103, 32, 97, 116, 32>>
      [] v.kind = "KarmaRespondedWithCode" ->
            <<WarningSign, 32, 75, 97, 114, 109, 97, 32, 114, 101, 115, 112, 111, 110, 100,
              101, 100, 32, 119, 105, 116, 104, 32, 99, 111, 100, 101, 32>> \o Digits(v.code)
      [] OTHER ->
            <<BallotX, 32, 69, 114, 114, 111, 114, 32, 99, 111, 110, 110, 101, 99, 116, 105,
              110, 103, 32, 116, 111, 32, 75, 97, 114, 109, 97, 58, 32>>
            \o ExceptionText(v.msg)

\* health_check taking every answer of the upstream, whatever its status,
\* for a healthy one.
health_check_AnyAnswer(r) ==
    IF r.raised
    THEN Http(503, [detail |-> "Health check failed: " \o r.exc], r.requests)
    ELSE IF ~Contains(<<BallotX>>, CheckKarmaText(r.value))
    THEN Http(200, [status |-> "healthy", karma |-> "connected", message |-> r.value],
              r.requests)
    ELSE Http(200, [status |-> "degraded", karma |-> "issues", message |-> r.value],
              r.requests)

\* GET /health, given what awaiting check_karma gave.
health_check(r) ==
    IF r.raised
    THEN Http(503, [detail |-> "Health check failed: " \o r.exc], r.requests)
    ELSE IF Contains(<<CheckMark>>, CheckKarmaText(r.value))
    THEN Http(200, [status |-> "healthy", karma |-> "connected", message |-> r.value],
              r.requests)
    ELSE Http(200, [status |-> "degraded", karma |-> "issues", message |-> r.value],
              r.requests)

\* A snapshot with one alert, one silence and one Alertmanager.
HttpPopulated ==
    [grids |-> <<[alertGroups |->
                    <<Group(GL_crit,
                            <<Alert(STR_active, <<Pair(STR_container, STR_nginx)>>, <<>>,
                                    <<Source(STR_prod)>>)>>)>>]>>,
     instances |-> <<SilenceInstance(STR_prod, STR_uri)>>,
     silences |-> Object(<<Item(STR_prod,
                                Object(<<Item(STR_ab12, Silence(STR_comment, STR_ops))>>))>>)]

\* A snapshot whose alert name and alertmanager cluster are null.
HttpNulls ==
    [grids |-> <<[alertGroups |->
                    <<Group(GL_null,
                            <<Alert(STR_active, <<>>, <<>>, <<Source(None)>>)>>)>>]>>,
     instances |-> <<SilenceInstance(STR_prod, STR_uri)>>,
     silences |-> Null]

HttpUpstreams ==
    {Outcome("raises", 0, "Connection refused", NoData, 0),
     Outcome("status", 500, "", NoData, 503),
     Outcome("ok", 200, "", HttpPopulated, 200),
     Outcome("ok", 200, "", HttpNulls, 200)}

\* Requests POST /mcp/sse answers before it stops being observed.
MaxServed == 2

NoArgumentTools ==
    {"check_karma", "list_alerts", "get_alerts_summary", "list_clusters",
     "list_active_alerts", "list_suppressed_alerts"}

\* The tools that take arguments, each with its required parameter and a
\* value for it.
ArgumentTools ==
    {[name |-> "list_alerts_by_cluster", key |-> "cluster_name", value |-> STR_prod],
     [name |-> "get_alert_details", key |-> "alert_name", value |-> STR_crash],
     [name |-> "get_alerts_by_state", key |-> "state", value |-> STR_active],
     [name |-> "search_alerts_by_container", key |-> "container_name", value |-> STR_nginx],
     [name |-> "get_alert_details_multi_cluster", key |-> "alert_name", value |-> STR_crash]}

\* The arguments a caller passes to a tool with a required parameter:
\* none, null, an object without it, with an empty or null value, with a
\* value, and with a cluster_filter beside it.
ArgumentsFor(t) ==
    {NoMember, Null, Object(<<>>),
     Object(<<Item(t.key, Text(STR_empty))>>),
     Object(<<Item(t.key, Null)>>),
     Object(<<Item(t.key, Text(t.value))>>),
     Object(<<Item("cluster_filter", Text(STR_dev)), Item(t.key, Text(t.value))>>)}

ToolCalls ==
    {ToolCall(Name(n), a) : n \in NoArgumentTools, a \in {NoMember, Object(<<>>)}}
    \cup {ToolCall(Name("check_karma"), Null)}
    \cup UNION {{ToolCall(Name(t.name), a) : a \in ArgumentsFor(t)} : t \in ArgumentTools}
    \cup {ToolCall(n, Object(<<>>)) : n \in {Name("restart_karma"), Name(""), Null, NoMember}}

RequestIds == {Num(7), Text(STR_ab12), NoMember}

JsonRpcBodies ==
    {Unparseable, JsonArray, Text(STR_boom), Num(7), Null}
    \cup {Request(m, id, NoMember) :
            m \in {Name("initialize"), Name("tools/list"), Name("notifications/initialized"),
                   Name("resources/list"), NoMember},
            id \in RequestIds}
    \cup {Request(Name("tools/call"), id, p) :
            id \in RequestIds, p \in ToolCalls \cup {NoMember, Null}}

ExecuteBodies == {Unparseable, JsonArray, Null} \cup ToolCalls

\* check_karma replaced by a double that raises, as the tests of the health
\* endpoint do.
CheckKarmaPatched == Sent(<<>>, Raises("Connection failed"))

InitHttp ==
    /\ upstream \in HttpUpstreams
    /\ pc = "idle"
    /\ op = "none"
    /\ args = <<>>
    /\ result = NoResult
    /\ raised = FALSE
    /\ requests = <<>>
    /\ calls = <<>>
    /\ served = <<>>
    /\ heap = NoHeap

\* One request handled: the endpoint, the request body, and the answer.
Handle(endpoint, body, answer) ==
    /\ pc = "idle"
    /\ \E h \in {answer} :
          /\ pc' = "done"
          /\ op' = endpoint
          /\ args' = <<body>>
          /\ result' = [status |-> h.status, body |-> h.body]
          /\ raised' = h.escaped
          /\ requests' = h.requests
          /\ upstream' = Served(upstream, h.requests)
    /\ UNCHANGED <<calls, heap>>

HealthCheck ==
    /\ \E r \in {check_karma(upstream), CheckKarmaPatched} :
          Handle("GET /health", r, health_check(r))
    /\ UNCHANGED served

GetAlerts ==
    /\ Handle("GET /alerts", Null, rest_endpoint(list_alerts(upstream)))
    /\ UNCHANGED served

GetSummary ==
    /\ Handle("GET /alerts/summary", Null, rest_endpoint(get_alerts_summary(upstream)))
    /\ UNCHANGED served

GetClusters ==
    /\ Handle("GET /clusters", Null, rest_endpoint(list_clusters(upstream)))
    /\ UNCHANGED served

GetAlertsByCluster ==
    /\ \E c \in {STR_prod, STR_empty} :
          Handle("POST /alerts/by-cluster", Object(<<Item("cluster_name", Text(c))>>),
                 rest_endpoint(list_alerts_by_cluster(upstream, c)))
    /\ UNCHANGED served

GetDetails ==
    /\ \E n \in {STR_crash, STR_HighMem} :
          Handle("POST /alerts/details", Object(<<Item("alert_name", Text(n))>>),
                 rest_endpoint(get_alert_details(upstream, n)))
    /\ UNCHANGED served

SearchContainerAlerts ==
    /\ \E c \in {STR_nginx, STR_ns1}, cf \in {STR_empty, STR_dev} :
          Handle("POST /alerts/search/container",
                 Object(<<Item("container_name", Text(c)), Item("cluster_filter", Text(cf))>>),
                 rest_endpoint(search_alerts_by_container(upstream, c, cf)))
    /\ UNCHANGED served

SearchAlertByName ==
    /\ \E n \in {STR_crash, STR_HighMem}, cf \in {STR_empty, STR_dev} :
          Handle("POST /alerts/search/name",
                 Object(<<Item("alert_name", Text(n)), Item("cluster_filter", Text(cf))>>),
                 rest_endpoint(get_alert_details_multi_cluster(upstream, n, cf)))
    /\ UNCHANGED served

GetSilences ==
    /\ \E c \in {STR_empty, STR_prod} :
          Handle("GET /silences", Text(c), rest_endpoint(list_silences(upstream, c)))
    /\ UNCHANGED served

CreateSilenceEndpoint ==
    /\ \E c \in {STR_prod, STR_qa}, d \in {STR_2h, STR_soon} :
          Handle("POST /silences",
                 Object(<<Item("cluster", Text(c)), Item("alertname", Text(STR_Crash)),
                          Item("duration", Text(d))>>),
                 rest_endpoint(create_silence(upstream, c, STR_Crash, d, STR_comment,
                                              STR_empty)))
    /\ UNCHANGED served

DeleteSilenceEndpoint ==
    /\ \E s \in {STR_ab, STR_boom}, c \in {STR_prod, STR_qa} :
          Handle("DELETE /silences",
                 Object(<<Item("silence_id", Text(s)), Item("cluster", Text(c))>>),
                 rest_endpoint(delete_silence(upstream, s, c)))
    /\ UNCHANGED served

McpToolEndpoint ==
    /\ \E c \in {c \in ToolCalls : c.name \notin {Null, NoMember, Name("")}} :
          Handle("POST /mcp/tools", c, mcp_tool_endpoint(c.name.name, c.arguments, upstream))
    /\ UNCHANGED served

\* The methods asked for so far, with this body's: a body that holds no
\* request object asks for none.
Asked(data) == IF data.json = "object" THEN Append(served, Value(data.method)) ELSE served

McpJsonRpcEndpoint ==
    /\ Len(served) < MaxServed
    /\ \E data \in JsonRpcBodies :
          /\ Handle("POST /mcp/sse", data, mcp_jsonrpc_endpoint(data, upstream))
          /\ served' = Asked(data)

ExecuteToolSse ==
    /\ \E data \in ExecuteBodies :
          Handle("POST /mcp/execute", data, execute_tool_sse(data, upstream))
    /\ UNCHANGED served

NextHttp ==
    \/ HealthCheck
    \/ GetAlerts
    \/ GetSummary
    \/ GetClusters
    \/ GetAlertsByCluster
    \/ GetDetails
    \/ SearchContainerAlerts
    \/ SearchAlertByName
    \/ GetSilences
    \/ CreateSilenceEndpoint
    \/ DeleteSilenceEndpoint
    \/ McpToolEndpoint
    \/ McpJsonRpcEndpoint
    \/ ExecuteToolSse
    \/ Return

SpecHttp == InitHttp /\ [][NextHttp]_vars

-----------------------------------------------------------------------------
(* filter_alerts_by_cluster on objects.  A Python dict or list is an       *)
(* object held by reference: heap.cells holds the objects by address, a    *)
(* dict or list that holds another holds its address, heap.alerts_data is  *)
(* the address of the snapshot the caller fetched and heap.filtered counts  *)
(* the filterings of that snapshot so far.                                  *)

List(items) == [list |-> items]

\* A new object at a fresh address.
Alloc(cells, object) == [cells |-> Append(cells, object), addr |-> Len(cells) + 1]

RECURSIVE LoadAlerts(_, _)
\* The alert dicts of a parsed group, each an object of its own.
LoadAlerts(cells, alerts) ==
    IF Len(alerts) = 0 THEN [cells |-> cells, addrs |-> <<>>]
    ELSE LET a == Alloc(cells, Head(alerts))
             rest == LoadAlerts(a.cells, Tail(alerts))
         IN [cells |-> rest.cells, addrs |-> <<a.addr>> \o rest.addrs]

\* A parsed group: a dict holding its alerts list and Karma's totalAlerts.
LoadGroup(cells, group) ==
    LET as == LoadAlerts(cells, group.alerts)
        l == Alloc(as.cells, List(as.addrs))
    IN Alloc(l.cells, [labels |-> group.labels, alerts |-> l.addr,
                       totalAlerts |-> Len(group.alerts)])

RECURSIVE LoadGroups(_, _)
LoadGroups(cells, groups) ==
    IF Len(groups) = 0 THEN [cells |-> cells, addrs |-> <<>>]
    ELSE LET g == LoadGroup(cells, Head(groups))
             rest == LoadGroups(g.cells, Tail(groups))
         IN [cells |-> rest.cells, addrs |-> <<g.addr>> \o rest.addrs]

LoadGrid(cells, grid) ==
    LET gs == LoadGroups(cells, grid.alertGroups)
        l == Alloc(gs.cells, List(gs.addrs))
    IN Alloc(l.cells, [alertGroups |-> l.addr])

RECURSIVE LoadGrids(_, _)
LoadGrids(cells, grids) ==
    IF Len(grids) = 0 THEN [cells |-> cells, addrs |-> <<>>]
    ELSE LET g == LoadGrid(cells, Head(grids))
             rest == LoadGrids(g.cells, Tail(grids))
         IN [cells |-> rest.cells, addrs |-> <<g.addr>> \o rest.addrs]

\* response.json(): the snapshot as objects, the caller holding the outermost.
Load(data) ==
    LET gs == LoadGrids(<<>>, data.grids)
        l == Alloc(gs.cells, List(gs.addrs))
        root == Alloc(l.cells, [grids |-> l.addr, instances |-> data.instances])
    IN [cells |-> root.cells, alerts_data |-> root.addr, filtered |-> 0]

\* The value of the snapshot an address stands for.
ReadGroup(cells, g) ==
    [labels |-> cells[g].labels,
     alerts |-> [i \in 1..Len(cells[cells[g].alerts].list) |->
                    cells[cells[cells[g].alerts].list[i]]],
     totalAlerts |-> cells[g].totalAlerts]
ReadGrid(cells, g) ==
    [alertGroups |-> [i \in 1..Len(cells[cells[g].alertGroups].list) |->
                         ReadGroup(cells, cells[cells[g].alertGroups].list[i])]]
Read(cells, d) ==
    [grids |-> [i \in 1..Len(cells[cells[d].grids].list) |->
                   ReadGrid(cells, cells[cells[d].grids].list[i])],
     instances |-> cells[d].instances]

\* No copy: the name is bound to the very dict handed in.
Copy_Aliasing(cells, a) == [cells |-> cells, addr |-> a]

\* dict.copy(): a new dict holding the same items.
Copy(cells, a) == Alloc(cells, cells[a])

\* dict[key] = v
SetItem(cells, a, key, v) ==
    CASE key = "alerts" -> [cells EXCEPT ![a].alerts = v]
      [] key = "totalAlerts" -> [cells EXCEPT ![a].totalAlerts = v]
      [] key = "alertGroups" -> [cells EXCEPT ![a].alertGroups = v]
      [] OTHER -> [cells EXCEPT ![a].grids = v]

\* list.append(x)
ListAppend(cells, l, x) == [cells EXCEPT ![l].list = Append(@, x)]

RECURSIVE FilterAlertsLoop(_, _, _, _)
\* for alert in group.get("alerts", [])
FilterAlertsLoop(cells, filtered_alerts, alerts, cluster_name) ==
    IF Len(alerts) = 0 THEN [cells |-> cells, raised |-> FALSE]
    ELSE LET m == AmMatch(cells[Head(alerts)].alertmanager, cluster_name)
         IN IF m = "raise" THEN [cells |-> cells, raised |-> TRUE]
            ELSE FilterAlertsLoop(IF m = "yes"
                                  THEN ListAppend(cells, filtered_alerts, Head(alerts))
                                  ELSE cells,
                                  filtered_alerts, Tail(alerts), cluster_name)

RECURSIVE FilterGroupsLoop(_, _, _, _)
\* for group in grid.get("alertGroups", [])
FilterGroupsLoop(cells, filtered_groups, groups, cluster_name) ==
    LET group == Head(groups)
        \* filtered_group = group.copy(); its items set; filtered_groups.append
        stored(filtered_group, filtered_alerts) ==
            ListAppend(SetItem(SetItem(filtered_group.cells, filtered_group.addr,
                                       "alerts", filtered_alerts),
                               filtered_group.addr, "totalAlerts",
                               Len(filtered_group.cells[filtered_alerts].list)),
                       filtered_groups, filtered_group.addr)
        \* if filtered_alerts:
        after(loop, filtered_alerts) ==
            IF loop.raised THEN loop
            ELSE FilterGroupsLoop(IF Len(loop.cells[filtered_alerts].list) > 0
                                  THEN stored(Copy(loop.cells, group), filtered_alerts)
                                  ELSE loop.cells,
                                  filtered_groups, Tail(groups), cluster_name)
        \* filtered_alerts = []
        body(filtered_alerts) ==
            after(FilterAlertsLoop(filtered_alerts.cells, filtered_alerts.addr,
                                   cells[cells[group].alerts].list, cluster_name),
                  filtered_alerts.addr)
    IN IF Len(groups) = 0 THEN [cells |-> cells, raised |-> FALSE]
       ELSE body(Alloc(cells, List(<<>>)))

RECURSIVE FilterGridsLoop(_, _, _, _)
\* for grid in alerts_data.get("grids", [])
FilterGridsLoop(cells, filtered_grids, grids, cluster_name) ==
    LET grid == Head(grids)
        \* filtered_grid = grid.copy(); its item set; filtered_grids.append
        stored(filtered_grid, filtered_groups) ==
            ListAppend(SetItem(filtered_grid.cells, filtered_grid.addr, "alertGroups",
                               filtered_groups),
                       filtered_grids, filtered_grid.addr)
        \* if filtered_groups:
        after(loop, filtered_groups) ==
            IF loop.raised THEN loop
            ELSE FilterGridsLoop(IF Len(loop.cells[filtered_groups].list) > 0
                                 THEN stored(Copy(loop.cells, grid), filtered_groups)
                                 ELSE loop.cells,
                                 filtered_grids, Tail(grids), cluster_name)
        \* filtered_groups = []
        body(filtered_groups) ==
            after(FilterGroupsLoop(filtered_groups.cells, filtered_groups.addr,
                                   cells[cells[grid].alertGroups].list, cluster_name),
                  filtered_groups.addr)
    IN IF Len(grids) = 0 THEN [cells |-> cells, raised |-> FALSE]
       ELSE body(Alloc(cells, List(<<>>)))

\* filter_alerts_by_cluster as it runs on the caller's objects: the objects
\* after the call and the address of the dict returned.
FilterObjects(cells, alerts_data, cluster_name) ==
    LET \* filtered_data = alerts_data.copy(); filtered_data["grids"] = filtered_grids
        returned(filtered_data, filtered_grids) ==
            [cells |-> SetItem(filtered_data.cells, filtered_data.addr, "grids",
                               filtered_grids),
             raised |-> FALSE, addr |-> filtered_data.addr]
        after(loop, filtered_grids) ==
            IF loop.raised THEN [cells |-> loop.cells, raised |-> TRUE, addr |-> 0]
            ELSE returned(Copy(loop.cells, alerts_data), filtered_grids)
        \* filtered_grids = []
        body(filtered_grids) ==
            after(FilterGridsLoop(filtered_grids.cells, filtered_grids.addr,
                                  cells[cells[alerts_data].grids].list, cluster_name),
                  filtered_grids.addr)
    IN body(Alloc(cells, List(<<>>)))

\* Filterings of one fetched snapshot.
MaxFiltered == 2

FilterClusterArgs == {STR_prod, STR_dev}

InitFilter ==
    /\ upstream \in {u \in Upstreams : u.kind = "ok"}
    /\ heap = Load(upstream.data)
    /\ pc = "idle"
    /\ op = "none"
    /\ args = <<>>
    /\ result = NoResult
    /\ raised = FALSE
    /\ requests = <<>>
    /\ calls = <<>>
    /\ served = <<>>

FilterAlertsByCluster ==
    /\ pc = "idle"
    /\ heap.filtered < MaxFiltered
    /\ \E cluster_name \in FilterClusterArgs :
          \E r \in {FilterObjects(heap.cells, heap.alerts_data, cluster_name)} :
             /\ pc' = "done"
             /\ op' = "filter_alerts_by_cluster"
             /\ args' = <<heap.alerts_data, cluster_name>>
             /\ result' = IF r.raised THEN NoResult
                          ELSE [kind |-> "Reference", addr |-> r.addr]
             /\ raised' = r.raised
             /\ requests' = <<>>
             /\ heap' = [heap EXCEPT !.cells = r.cells, !.filtered = @ + 1]
    /\ UNCHANGED <<upstream, calls, served>>

NextFilter == FilterAlertsByCluster \/ Return

SpecFilter == InitFilter /\ [][NextFilter]_vars

-----------------------------------------------------------------------------
(* Properties.                                                             *)

Tools ==
    {"check_karma", "list_alerts", "get_alerts_summary", "list_clusters",
     "list_alerts_by_cluster", "get_alert_details", "list_active_alerts",
     "list_suppressed_alerts", "get_alerts_by_state",
     "get_alert_details_multi_cluster", "search_alerts_by_container"}

AlertFetchingTools == Tools \ {"check_karma"}

Done(name) == pc = "done" /\ op = name

\* The alerts of the snapshot the upstream holds, each with its group, in
\* upstream order.
UpstreamPairs == GroupAlertPairs(AllGroups(upstream.data))

\* The snapshot holds no null and every alertmanager source names its cluster.
WellFormed ==
    /\ \A i \in 1..Len(UpstreamPairs) :
          LET p == UpstreamPairs[i]
          IN /\ p.alert.state # None
             /\ \A j \in 1..Len(p.group.labels) : p.group.labels[j].value # None
             /\ \A j \in 1..Len(p.alert.labels) : p.alert.labels[j].value # None
             /\ \A j \in 1..Len(p.alert.annotations) : p.alert.annotations[j].value # None
             /\ \A j \in 1..Len(p.alert.alertmanager) :
                   p.alert.alertmanager[j].cluster \notin {None, Absent}
    /\ \A i \in 1..Len(upstream.data.instances) :
          upstream.data.instances[i].cluster \notin {None, Absent}

\* C1: every tool is total: whatever the upstream answers, the invocation
\* hands back a string and raises nothing.
C1_ToolsAreTotal ==
    (pc = "done" /\ op \in Tools) => (~raised /\ result # NoResult)

\* C2: an upstream failure is mapped to its sentence by every alert-fetching
\* tool: a raising request to "Error connecting to Karma: <message>", a
\* non-2xx status N to "Error fetching alerts: code N", an unparseable 200
\* body to the "Error connecting to Karma" form; nothing else is rendered.
C2_UpstreamFailureMapped ==
    (pc = "done" /\ op \in AlertFetchingTools /\ requests # <<>>) =>
        /\ upstream.kind = "raises" =>
              ~raised /\ result = [kind |-> "ErrorConnecting", msg |-> upstream.msg]
        /\ (upstream.kind = "status" /\ upstream.code \notin 200..299) =>
              ~raised /\ result = [kind |-> "ErrorFetchingAlerts", code |-> upstream.code]
        /\ upstream.kind = "unparseable" =>
              ~raised /\ result.kind = "ErrorConnecting" /\ DOMAIN result = {"kind", "msg"}

C2_Witness ==
    /\ Done("get_alert_details")
    /\ upstream.kind = "status"
    /\ upstream.code = 404
    /\ result = [kind |-> "ErrorFetchingAlerts", code |-> 404]

\* C3: after filtering by cluster C, the cluster name re-derived for every
\* listed alert is C (names compared as the filter compares them, without
\* regard to letter case).
C3_FilteredClusterIsC ==
    (Done("list_alerts_by_cluster") /\ result.kind = "ClusterAlerts" /\ WellFormed) =>
        \A i \in 1..Len(result.entries) :
            Lower(result.entries[i].cluster) = Lower(args[1])

\* Which alerts a search selects, and which of their sources pass its filter.
Selected(p) ==
    IF op = "get_alert_details_multi_cluster"
    THEN Lower(PairsGet(p.group.labels, STR_alertname, STR_empty)) = Lower(args[1])
    ELSE Contains(Lower(args[1]), Lower(PairsGet(p.alert.labels, STR_container, STR_empty)))
Passes(am) ==
    args[2] = STR_empty \/ Contains(Lower(args[2]), Lower(Get(am.cluster, STR_unknown)))
PassingSources(alert) ==
    {i \in 1..Len(alert.alertmanager) : Passes(alert.alertmanager[i])}
SelectedAlerts == {i \in 1..Len(UpstreamPairs) : Selected(UpstreamPairs[i])}
SearchReported ==
    \/ Done("get_alert_details_multi_cluster") /\ result.kind = "MultiClusterDetails"
    \/ Done("search_alerts_by_container") /\ result.kind = "ContainerSearch"
ReportedTotal ==
    IF op = "get_alert_details_multi_cluster" THEN result.total_instances
    ELSE result.total_alerts
ReportedBreakdown ==
    IF op = "get_alert_details_multi_cluster" THEN result.breakdown
    ELSE result.cluster_summary
RECURSIVE SumOver(_, _)
SumOver(S, f) ==
    IF S = {} THEN 0
    ELSE LET x == CHOOSE y \in S : TRUE IN f[x] + SumOver(S \ {x}, f)

\* C4 as claimed: a selected alert with k sources passing the filter is
\* attributed k matches, one for each (alert, source) pair.
C4_OneMatchPerSource ==
    (SearchReported /\ WellFormed) =>
        ReportedTotal =
            SumOver(SelectedAlerts,
                    [i \in SelectedAlerts |->
                        Cardinality(PassingSources(UpstreamPairs[i].alert))])

\* The cluster of the first source of the alert that passes the filter.
FirstPassingCluster(alert) ==
    LET i == CHOOSE j \in PassingSources(alert) :
                 \A k \in PassingSources(alert) : j <= k
    IN Get(alert.alertmanager[i].cluster, STR_unknown)

\* The instances the report lists under one cluster.
SectionInstances(section) ==
    IF op = "get_alert_details_multi_cluster"
    THEN Len(section.shown) + section.more
    ELSE SumOver(1..Len(section.groups),
                 [j \in 1..Len(section.groups) |-> section.groups[j].count])

\* C4 as amended: a selected alert with at least one source passing the
\* filter is attributed exactly one match, to the cluster of the first such
\* source, and counts in that cluster's counters only.
C4_OneMatchPerAlert ==
    SearchReported =>
        LET attributed == {i \in SelectedAlerts :
                              PassingSources(UpstreamPairs[i].alert) # {}}
            of(cluster) == {i \in attributed :
                               FirstPassingCluster(UpstreamPairs[i].alert) = cluster}
            in(cluster, state) ==
                {i \in of(cluster) :
                    Lower(Get(UpstreamPairs[i].alert.state, STR_unknown)) = state}
        IN /\ ReportedTotal = Cardinality(attributed)
           /\ \A c \in 1..Len(result.clusters) :
                 SectionInstances(result.clusters[c])
                     = Cardinality(of(result.clusters[c].cluster))
           /\ \A b \in 1..Len(ReportedBreakdown) :
                 /\ of(ReportedBreakdown[b].cluster) # {}
                 /\ ReportedBreakdown[b].total >= Cardinality(of(ReportedBreakdown[b].cluster))
                 /\ ReportedBreakdown[b].active
                       = Cardinality(in(ReportedBreakdown[b].cluster, STR_active))
                 /\ ReportedBreakdown[b].suppressed
                       = Cardinality(in(ReportedBreakdown[b].cluster, STR_suppressed))
           /\ \A i \in attributed :
                 /\ \E b \in 1..Len(ReportedBreakdown) :
                       ReportedBreakdown[b].cluster
                           = FirstPassingCluster(UpstreamPairs[i].alert)
                 /\ \E c \in 1..Len(result.clusters) :
                       result.clusters[c].cluster
                           = FirstPassingCluster(UpstreamPairs[i].alert)

C4_Witness ==
    /\ SearchReported
    /\ \E i \in SelectedAlerts :
          Cardinality(PassingSources(UpstreamPairs[i].alert)) = 2
    /\ ReportedTotal = 1

\* The severity the data model gives an alert: the group's label, else the
\* alert's label, else "unknown".
ClaimedSeverity(p) ==
    IF \E i \in 1..Len(p.group.labels) : p.group.labels[i].name = STR_severity
    THEN PairsGet(p.group.labels, STR_severity, STR_unknown)
    ELSE IF \E i \in 1..Len(p.alert.labels) : p.alert.labels[i].name = STR_severity
    THEN PairsGet(p.alert.labels, STR_severity, STR_unknown)
    ELSE STR_unknown

\* C5: the severity shown for an alert is the group's severity label if
\* present, otherwise the alert's severity label if present, otherwise
\* "unknown" (here: in list_alerts, entry by entry, and in
\* list_active_alerts, where a section shows the severity of one of its
\* active alerts).
C5_SeverityResolution ==
    /\ (Done("list_alerts") /\ result.kind = "FoundAlerts" /\ WellFormed) =>
          \A i \in 1..Len(result.entries) :
              result.entries[i].severity = ClaimedSeverity(UpstreamPairs[i])
    /\ (Done("list_active_alerts") /\ result.kind = "ActiveAlerts" /\ WellFormed) =>
          \A g \in 1..Len(result.groups) :
              \E i \in 1..Len(UpstreamPairs) :
                  /\ Lower(Get(UpstreamPairs[i].alert.state, STR_unknown)) = STR_active
                  /\ PairsGet(UpstreamPairs[i].group.labels, STR_alertname, STR_unknown)
                        = result.groups[g].alertname
                  /\ ClaimedSeverity(UpstreamPairs[i]) = result.groups[g].severity

\* The number of alerts a state report counts; "none found" counts as 0.
AlertCount(r) ==
    CASE r.kind \in {"FoundAlerts", "ActiveAlerts", "SuppressedAlerts"} -> r.total
      [] r.kind \in {"NoActiveAlerts", "NoActiveAlertsFound", "NoSuppressedAlertsFound"} -> 0
      [] OTHER -> -1

\* A snapshot of the data model: the alertname of every group is a string.
NamedGroups ==
    \A i \in 1..Len(UpstreamPairs) :
        PairsGet(UpstreamPairs[i].group.labels, STR_alertname, STR_unknown) # None

ExactStates ==
    \A i \in 1..Len(UpstreamPairs) :
        UpstreamPairs[i].alert.state \in {STR_active, STR_suppressed}

\* C6: on a snapshot of the data model (every alertname a string) whose
\* alerts are all exactly "active" or "suppressed",
\* the count get_alerts_by_state("all") reports is the count it reports for
\* "active" plus the count it reports for "suppressed".
C6_AllIsActivePlusSuppressed ==
    (Done("get_alerts_by_state") /\ Lower(args[1]) = STR_all
        /\ upstream.kind = "ok" /\ ExactStates /\ NamedGroups) =>
        /\ AlertCount(result) >= 0
        /\ AlertCount(result) =
              AlertCount(get_alerts_by_state(upstream, STR_active).value)
              + AlertCount(get_alerts_by_state(upstream, STR_suppressed).value)

C6_Witness ==
    /\ Done("get_alerts_by_state")
    /\ args = <<STR_all>>
    /\ ExactStates
    /\ result.kind = "FoundAlerts"
    /\ result.total = 2
    /\ AlertCount(get_alerts_by_state(upstream, STR_active).value) = 1
    /\ AlertCount(get_alerts_by_state(upstream, STR_suppressed).value) = 1

\* C7: get_alerts_by_state with a state that is none of active, suppressed,
\* all (in any letter case) returns the validation sentence naming the three
\* options and sends no request.
C7_InvalidStateRejected ==
    (Done("get_alerts_by_state")
        /\ Lower(args[1]) \notin {STR_active, STR_suppressed, STR_all}) =>
        /\ ~raised
        /\ result = [kind |-> "InvalidState", state |-> args[1],
                     valid_options |-> <<STR_active, STR_suppressed, STR_all>>]
        /\ requests = <<>>

C7_Witness ==
    /\ Done("get_alerts_by_state")
    /\ args = <<STR_bogus>>
    /\ result.kind = "InvalidState"
    /\ upstream.kind = "ok"

\* C8: extract_label_value returns the value of the first pair named key
\* (names compared with regard to letter case), and exactly the default when
\* no pair is named key or the sequence is empty; a pair that holds no value
\* counts as absent.
C8_FirstPairOrDefault ==
    Done("extract_label_value") =>
        LET labels == args[1]
            key == args[2]
            default == args[3]
            named == {i \in 1..Len(labels) : labels[i].name = key}
            first == CHOOSE i \in named : \A j \in named : i <= j
        IN IF named = {} THEN result.value = default
           ELSE IF labels[first].value = Absent THEN result.value = default
           ELSE result.value = labels[first].value

C8_Witness ==
    /\ Done("extract_label_value")
    /\ args = <<<<Pair(STR_Severity, STR_warning), Pair(STR_severity, STR_critical)>>,
                STR_severity, STR_unknown>>
    /\ result.value = STR_critical

MatchesCluster(alert, c) ==
    \E j \in 1..Len(alert.alertmanager) :
        /\ alert.alertmanager[j].cluster # None
        /\ Lower(Get(alert.alertmanager[j].cluster, STR_empty)) = Lower(c)

\* C11: list_alerts_by_cluster(C) keeps exactly the alerts with a source
\* whose cluster is C without regard to letter case, in upstream order; the
\* filtered snapshot holds no group without alerts and no grid without
\* groups; when no alert matches the result is "No alerts found for cluster:
\* C", which is not the sentence an empty snapshot gets.
C11_ExactlyTheClusterAlerts ==
    (Done("list_alerts_by_cluster") /\ upstream.kind = "ok" /\ ~raised) =>
        LET keep(p) == MatchesCluster(p.alert, args[1])
            kept == SelectSeq(UpstreamPairs, keep)
            filtered == filter_alerts_by_cluster(upstream.data, args[1]).data
            survivors == GroupAlertPairs(AllGroups(filtered))
        IN /\ [i \in 1..Len(survivors) |-> survivors[i].alert]
                = [i \in 1..Len(kept) |-> kept[i].alert]
           /\ [i \in 1..Len(survivors) |-> survivors[i].group.labels]
                = [i \in 1..Len(kept) |-> kept[i].group.labels]
           /\ \A g \in 1..Len(filtered.grids) :
                 /\ Len(filtered.grids[g].alertGroups) > 0
                 /\ \A k \in 1..Len(filtered.grids[g].alertGroups) :
                       Len(filtered.grids[g].alertGroups[k].alerts) > 0
           /\ IF Len(upstream.data.grids) = 0 THEN result = NoActiveAlerts
              ELSE IF Len(kept) = 0
              THEN /\ result = [kind |-> "NoAlertsForCluster", cluster_name |-> args[1]]
                   /\ result # NoActiveAlerts
              ELSE /\ result.kind = "ClusterAlerts"
                   /\ result.total = Len(kept)
                   /\ Len(result.entries) = Len(kept)
                   /\ \A i \in 1..Len(kept) :
                         /\ result.entries[i].state = Get(kept[i].alert.state, STR_unknown)
                         /\ result.entries[i].alertname
                              = PairsGet(kept[i].group.labels, STR_alertname, STR_Unknown)

\* One of two groups is dropped, and the alert kept matches by its second
\* source, named in another letter case.
C11_Witness ==
    /\ Done("list_alerts_by_cluster")
    /\ args = <<STR_prod>>
    /\ Len(UpstreamPairs) = 2
    /\ Len(AllGroups(upstream.data)) = 2
    /\ result.kind = "ClusterAlerts"
    /\ result.total = 1
    /\ \E i \in 1..2 :
          UpstreamPairs[i].alert.alertmanager = <<Source(STR_dev), Source(STR_Prod)>>

\* a occurs in b as a run of consecutive characters.
IsSubstring(a, b) ==
    \E i \in 1..(Len(b) + 1) : \E j \in 0..Len(b) : SubSeq(b, i, j) = a

\* The container label of an alert, the empty string where it has none.
ContainerOf(p) == PairsGet(p.alert.labels, STR_container, STR_empty)

\* The number of instances a container search reports.
SearchTotal == IF result.kind = "ContainerSearch" THEN result.total_alerts ELSE 0

\* C12: search_alerts_by_container(q) without cluster filter reports exactly
\* the alerts (each reported by at least one alertmanager) whose lowered
\* container label has lowered q as a substring; an alert without container
\* label counts as having the empty string, which no non-empty q matches.
C12_ContainerSubstringMatch ==
    (Done("search_alerts_by_container") /\ args[2] = STR_empty
        /\ result.kind \in {"ContainerSearch", "NoAlertsForContainer"}) =>
        LET matched == {i \in 1..Len(UpstreamPairs) :
                           /\ Len(UpstreamPairs[i].alert.alertmanager) > 0
                           /\ IsSubstring(Lower(args[1]), Lower(ContainerOf(UpstreamPairs[i])))}
            labelled == {i \in 1..Len(UpstreamPairs) :
                            HasKey(DictOfPairs(UpstreamPairs[i].alert.labels, <<>>),
                                   STR_container)}
        IN /\ SearchTotal = Cardinality(matched)
           /\ args[1] # STR_empty => matched \subseteq labelled

\* The query GIN finds the one alert labelled container=nginx and leaves out
\* the alert that has no container label.
C12_Witness ==
    /\ Done("search_alerts_by_container")
    /\ args = <<STR_GIN, STR_empty>>
    /\ Len(UpstreamPairs) = 2
    /\ result.kind = "ContainerSearch"
    /\ result.total_alerts = 1
    /\ \E i \in 1..2 : ContainerOf(UpstreamPairs[i]) = STR_empty

\* The upstream answers 200 with a snapshot that holds no grids.
EmptySnapshot == upstream.kind = "ok" /\ Len(upstream.data.grids) = 0

\* The "no data" sentence each tool has for an empty snapshot; check_karma
\* reads no snapshot and get_alerts_by_state rejects an invalid state first.
NoDataSentence(name, a) ==
    CASE name = "check_karma" -> [kind |-> "KarmaRunning"]
      [] name = "list_active_alerts" -> [kind |-> "NoActiveAlertsFound"]
      [] name = "list_suppressed_alerts" -> [kind |-> "NoSuppressedAlertsFound"]
      [] name = "get_alerts_by_state" ->
            IF Lower(a[1]) = STR_active THEN [kind |-> "NoActiveAlertsFound"]
            ELSE IF Lower(a[1]) = STR_suppressed THEN [kind |-> "NoSuppressedAlertsFound"]
            ELSE IF Lower(a[1]) = STR_all THEN NoActiveAlerts
            ELSE [kind |-> "InvalidState", state |-> a[1], valid_options |-> valid_states]
      [] name = "get_alert_details_multi_cluster" ->
            [kind |-> "NoInstancesOfAlert", alert_name |-> a[1], cluster_filter |-> a[2]]
      [] name = "search_alerts_by_container" ->
            [kind |-> "NoAlertsForContainer", container_name |-> a[1],
             cluster_filter |-> a[2]]
      [] OTHER -> NoActiveAlerts

ListEntry(group, alert) ==
    LET m == extract_alert_metadata(group, alert)
    IN [alertname |-> m.alertname, severity |-> m.severity,
        state |-> m.state, namespace |-> m.namespace]

\* C15 as claimed: list_alerts reports "Found N alerts", N the number of
\* alerts of the snapshot, and renders every alert, in upstream order.
C15_EveryAlertListed ==
    (Done("list_alerts") /\ result.kind = "FoundAlerts") =>
        /\ result.total = Len(UpstreamPairs)
        /\ result.entries = [i \in 1..Len(UpstreamPairs) |->
                                ListEntry(UpstreamPairs[i].group, UpstreamPairs[i].alert)]

\* C15 as amended: N is the number of alerts of the snapshot; the entries are
\* the first ListAlertsCap alerts of each group, in upstream order (group
\* order, then alert order); every alert is rendered when no group holds more.
C15_FirstTenOfEachGroupListed ==
    (Done("list_alerts") /\ result.kind = "FoundAlerts") =>
        LET groups == AllGroups(upstream.data)
            n(g) == IF Len(groups[g].alerts) < ListAlertsCap
                    THEN Len(groups[g].alerts) ELSE ListAlertsCap
            expected == Concat([g \in 1..Len(groups) |->
                            [i \in 1..n(g) |-> ListEntry(groups[g], groups[g].alerts[i])]])
        IN /\ result.total = Len(UpstreamPairs)
           /\ result.entries = expected
           /\ (\A g \in 1..Len(groups) : Len(groups[g].alerts) <= ListAlertsCap)
                 => Len(result.entries) = Len(UpstreamPairs)

\* A group of eleven alerts: eleven are counted, ten rendered, and the
\* eleventh, which differs from the others, is not among them.
C15_Witness ==
    /\ Done("list_alerts")
    /\ result.kind = "FoundAlerts"
    /\ result.total = ListAlertsCap + 1
    /\ Len(result.entries) = ListAlertsCap
    /\ UpstreamPairs[ListAlertsCap + 1].alert = BulkLast
    /\ \A i \in 1..Len(result.entries) : result.entries[i].state = STR_active

\* The items of a sorted (key, count) listing that have equal counts come in
\* ascending order of their names.
TiesByName(items) ==
    \A i \in 1..Len(items) : \A j \in (i + 1)..Len(items) :
        items[i].val = items[j].val => StrLess(items[i].key, items[j].key)

\* C16: in the By Cluster and Top Alert Types sections of get_alerts_summary,
\* which are sorted by count, entries with equal counts appear in ascending
\* lexicographic order of their names, whatever the upstream order.
C16_TiesBrokenByName ==
    (Done("get_alerts_summary") /\ result.kind = "Summary" /\ WellFormed) =>
        /\ TiesByName(result.by_cluster)
        /\ TiesByName(result.top_alerts)

\* A rendered group of count records, shown of them enumerated: when count
\* exceeds the cap the "... and N more" line follows, N = count - shown.
MoreLineFollows(count, shown, more, cap) ==
    count > cap => (more > 0 /\ more = count - shown)

\* C17, for the reports that print the line: in list_active_alerts and
\* list_suppressed_alerts (5 per alert name), get_alert_details_multi_cluster
\* (10 per cluster) and search_alerts_by_container (8 per alert name) a group
\* holding more records than the cap is followed by "... and N more", N the
\* group's record count minus the number of records enumerated.
C17_MoreLineInGroupedReports ==
    /\ (pc = "done" /\ result.kind \in {"ActiveAlerts", "SuppressedAlerts"}) =>
          \A g \in 1..Len(result.groups) :
              MoreLineFollows(result.groups[g].count, Len(result.groups[g].shown),
                              result.groups[g].more, StateListCap)
    /\ (pc = "done" /\ result.kind = "MultiClusterDetails") =>
          \A c \in 1..Len(result.clusters) :
              MoreLineFollows(result.breakdown[c].total, Len(result.clusters[c].shown),
                              result.clusters[c].more, MultiClusterCap)
    /\ (pc = "done" /\ result.kind = "ContainerSearch") =>
          \A c \in 1..Len(result.clusters) :
              \A g \in 1..Len(result.clusters[c].groups) :
                  MoreLineFollows(result.clusters[c].groups[g].count,
                                  Len(result.clusters[c].groups[g].shown),
                                  result.clusters[c].groups[g].more, SearchCap)

\* C17: in every report that caps the records enumerated per group, list_alerts
\* (10 per group) included, a group holding more records than the cap is
\* followed by "... and N more", N the group's record count minus the number
\* of records enumerated.
C17_MoreLineAfterCappedGroup ==
    /\ C17_MoreLineInGroupedReports
    /\ (Done("list_alerts") /\ result.kind = "FoundAlerts") =>
          \A g \in 1..Len(AllGroups(upstream.data)) :
              Len(AllGroups(upstream.data)[g].alerts) > ListAlertsCap =>
                  /\ "more" \in DOMAIN result
                  /\ result.more = result.total - Len(result.entries)

\* What a report with the given cap is to show for a description: the
\* description itself up to cap characters, else its first cap characters
\* followed by three dots.
Rendered(d, cap) ==
    IF d = Absent \/ Len(d) <= cap THEN d
    ELSE [k \in 1..(cap + 3) |-> IF k <= cap THEN d[k] ELSE 46]

\* The description annotation of an alert, Absent where it has none.
DescriptionOf(p) == PairsGet(p.alert.annotations, STR_description, Absent)

\* C18: get_alert_details renders each description unchanged up to 200
\* characters and as its first 200 characters plus "..." beyond that;
\* get_alert_details_multi_cluster does the same at 150 characters.
C18_DescriptionTruncation ==
    /\ (Done("get_alert_details") /\ result.kind = "AlertDetails") =>
          LET named(p) == Lower(PairsGet(p.group.labels, STR_alertname, STR_unknown))
                            = Lower(args[1])
              sel == SelectSeq(UpstreamPairs, named)
          IN [i \in 1..Len(result.instances) |-> result.instances[i].description]
               = [i \in 1..Len(sel) |-> Rendered(DescriptionOf(sel[i]), DetailsDescriptionCap)]
    /\ (Done("get_alert_details_multi_cluster") /\ result.kind = "MultiClusterDetails") =>
          LET shown == UNION {{result.clusters[c].shown[i].description :
                                   i \in 1..Len(result.clusters[c].shown)} :
                               c \in 1..Len(result.clusters)}
              expected == {Rendered(DescriptionOf(UpstreamPairs[i]), MultiDescriptionCap) :
                              i \in 1..Len(UpstreamPairs)}
          IN /\ shown \subseteq expected
             /\ Len(UpstreamPairs) = 1 => shown = expected

\* A description of 201 characters is shown by get_alert_details as 200
\* characters and three dots.
C18_Witness ==
    /\ Done("get_alert_details")
    /\ result.kind = "AlertDetails"
    /\ Len(UpstreamPairs) = 1
    /\ Len(DescriptionOf(UpstreamPairs[1])) = DetailsDescriptionCap + 1
    /\ Len(result.instances[1].description) = DetailsDescriptionCap + 3
    /\ SubSeq(result.instances[1].description, DetailsDescriptionCap + 1,
              DetailsDescriptionCap + 3) = STR_ellipsis

\* The arguments of the invocation are valid: only get_alerts_by_state
\* validates, and it rejects every state but active, suppressed and all.
ValidArguments ==
    op = "get_alerts_by_state" => Lower(args[1]) \in {STR_active, STR_suppressed, STR_all}

\* C19: an invocation sends at most one request to the upstream: exactly one
\* when its arguments are valid (get_alerts_by_state with a valid state, which
\* delegates, included), and none after the one that failed or was answered
\* with another status than 200.
C19_OneRequestPerInvocation ==
    (pc = "done" /\ op \in Tools) =>
        /\ Len(requests) <= 1
        /\ ValidArguments =>
              requests = IF op = "check_karma" THEN <<GetHealth>> ELSE <<PostAlerts>>
        /\ ~ValidArguments => requests = <<>>

\* get_alerts_by_state("Active") delegated to list_active_alerts, the
\* upstream answered 500, and one request was sent.
C19_Witness ==
    /\ Done("get_alerts_by_state")
    /\ args = <<STR_Active>>
    /\ upstream.kind = "status"
    /\ upstream.code = 500
    /\ result = ErrorFetchingAlerts(500)
    /\ requests = <<PostAlerts>>

-----------------------------------------------------------------------------
\* C21: create_silence and delete_silence, whatever their arguments and
\* whatever the upstream answers, send the read request POST /alerts.json
\* and nothing else, hand back a placeholder or a diagnostic string without
\* raising, and leave what the upstream holds, its silences included, as it
\* was before the call.
SilenceSentences ==
    {"ErrorCreatingSilence", "ErrorFetchingClusterInformation",
     "CouldNotFindAlertmanager", "InvalidDurationFormat", "SilencePrepared",
     "ErrorDeletingSilence", "ErrorFetchingSilenceInformation",
     "SilenceNotFound", "SilenceDeletion"}

-----------------------------------------------------------------------------
\* The request POST /mcp/sse has just answered, where its body held a
\* request object.
Answered == pc = "done" /\ op = "POST /mcp/sse" /\ args[1].json = "object"

\* The methods that are answered with a response object.
AnsweredMethod == Answered /\ Value(args[1].method) # Name("notifications/initialized")

\* C22: on POST /mcp/sse every response to initialize, tools/list,
\* tools/call or an unrecognized method carries jsonrpc "2.0" and the id of
\* the request it answers (null where the request has none), and holds
\* exactly one of result and error, whatever was asked before: initialize and
\* tools/list always hold a result, and so does a tools/call of check_karma,
\* whether or not initialize came first.
C22_ResponseEnvelope ==
    AnsweredMethod =>
        LET request == args[1]
            response == result.body
        IN /\ result.status = 200
           /\ ~raised
           /\ response.jsonrpc = "2.0"
           /\ response.id = (IF request.id = NoMember THEN Null ELSE request.id)
           /\ ("result" \in DOMAIN response) # ("error" \in DOMAIN response)
           /\ DOMAIN response \subseteq {"jsonrpc", "id", "result", "error"}
           /\ Value(request.method) \in {Name("initialize"), Name("tools/list")} =>
                 "result" \in DOMAIN response
           /\ /\ Value(request.method) = Name("tools/call")
              /\ request.params # NoMember
              /\ request.params # Null
              /\ request.params.name = Name("check_karma")
              => "result" \in DOMAIN response

\* A tools/call is answered with a result and the id of its request while
\* no initialize was ever asked.
C22_Witness ==
    /\ AnsweredMethod
    /\ Value(args[1].method) = Name("tools/call")
    /\ args[1].id = Num(7)
    /\ result.body.id = Num(7)
    /\ "result" \in DOMAIN result.body
    /\ Len(served) = MaxServed
    /\ \A i \in 1..Len(served) : served[i] # Name("initialize")

-----------------------------------------------------------------------------
\* The call a request makes of a dispatcher: the tool it names and the
\* arguments it passes, read independently of the dispatchers.
KnownTool(n) == \E t \in Tools : n = Name(t)

\* The call names a tool with a required parameter and passes no value, an
\* empty value or null for it.
Omits(c) ==
    \E t \in ArgumentTools :
        /\ c.name = Name(t.name)
        /\ c.arguments # Null
        /\ Argument(c.arguments, t.key) \in {Null, Text(STR_empty)}

RequiredKey(c) == (CHOOSE t \in ArgumentTools : c.name = Name(t.name)).key

\* What the tool of a well-formed call gives when run on the upstream.
ToolOutcome(c) ==
    IF c.name.name \in NoArgumentTools THEN Run(c.name.name, <<>>, upstream)
    ELSE LET filter == Argument(c.arguments, "cluster_filter")
         IN Run(c.name.name,
                <<Argument(c.arguments, RequiredKey(c)).text,
                  IF filter = Null THEN STR_empty ELSE filter.text>>,
                upstream)

\* The call reaches its tool: it names a known tool and passes what the tool
\* requires.
WellFormedCall(c) ==
    /\ KnownTool(Value(c.name))
    /\ ~Omits(c)
    /\ c.arguments = Null => c.name.name \in NoArgumentTools

\* C23: on POST /mcp/sse errors are delivered with HTTP status 200 and
\* classified: an unrecognized method is answered with error -32601 and the
\* message "Method not found: <method>"; a tools/call that fails for a reason
\* of the tool (an unknown tool name, a missing required argument, the tool
\* raising) is answered with error -32000 carrying the failure message, and
\* no result member.
C23_ErrorsClassified ==
    Answered =>
        LET request == args[1]
            method == Value(request.method)
            response == result.body
            c == IF request.params = NoMember THEN ToolCall(NoMember, NoMember)
                 ELSE request.params
            Error(code, message) ==
                /\ result.status = 200
                /\ ~raised
                /\ "result" \notin DOMAIN response
                /\ response.error = [code |-> code, message |-> message]
        IN /\ method \notin {Name("initialize"), Name("tools/list"), Name("tools/call"),
                             Name("notifications/initialized")} =>
                 Error(-32601, "Method not found: "
                                 \o (IF method = Null THEN "None" ELSE method.name))
           /\ (method = Name("tools/call") /\ request.params # Null) =>
                 /\ ~KnownTool(Value(c.name)) =>
                       Error(-32000, "Unknown tool: "
                                       \o (IF Value(c.name) = Null THEN "None" ELSE c.name.name))
                 /\ Omits(c) => Error(-32000, RequiredKey(c) \o " parameter required")
                 /\ (WellFormedCall(c) /\ ToolOutcome(c).raised) =>
                       Error(-32000, ToolOutcome(c).exc)

\* A tools/call whose tool raised on the snapshot it fetched was answered
\* with error -32000 and the message of the exception.
C23_Witness ==
    /\ Answered
    /\ Value(args[1].method) = Name("tools/call")
    /\ args[1].params # NoMember
    /\ args[1].params # Null
    /\ WellFormedCall(args[1].params)
    /\ requests = <<PostAlerts>>
    /\ result.status = 200
    /\ "error" \in DOMAIN result.body
    /\ result.body.error = [code |-> -32000, message |-> ExcNoneLower]

-----------------------------------------------------------------------------
\* POST /mcp/sse has just been sent a body that holds no request object.
Unprocessable == pc = "done" /\ op = "POST /mcp/sse" /\ args[1].json # "object"

\* C24: a body that POST /mcp/sse cannot process as a JSON-RPC request
\* object, be it unparseable or parseable JSON that is no object (an array,
\* a scalar), is answered with HTTP 200 and a JSON-RPC error of code -32603,
\* and no exception leaves the handler.
C24_UnprocessableBodyAnswered ==
    Unprocessable =>
        /\ ~raised
        /\ result.status = 200
        /\ "error" \in DOMAIN result.body
        /\ result.body.error.code = -32603

\* The part of C24 that the handler keeps: an unparseable body is answered
\* with HTTP 200, a null id and error -32603.
C24_UnparseableBodyAnswered ==
    (Unprocessable /\ args[1] = Unparseable) =>
        /\ ~raised
        /\ result.status = 200
        /\ result.body.id = Null
        /\ "error" \in DOMAIN result.body
        /\ result.body.error.code = -32603

-----------------------------------------------------------------------------
\* The call names a tool with a required parameter and passes nothing for
\* it: no arguments or null for arguments, or arguments without a value for
\* the parameter.
OmitsRequired(c) ==
    \E t \in ArgumentTools :
        /\ c.name = Name(t.name)
        /\ (c.arguments = Null \/ Argument(c.arguments, t.key) \in {Null, Text(STR_empty)})

\* The call is one that a dispatcher has to refuse.
Refusable(c) == ~KnownTool(Value(c.name)) \/ OmitsRequired(c)

\* The request a dispatcher has just handled made the call c.
Dispatched(endpoint, c) ==
    /\ pc = "done"
    /\ op = endpoint
    /\ args[1].json = "object"
    /\ IF endpoint = "POST /mcp/sse"
       THEN /\ Value(args[1].method) = Name("tools/call")
            /\ args[1].params # Null
            /\ c = (IF args[1].params = NoMember THEN ToolCall(NoMember, NoMember)
                    ELSE args[1].params)
       ELSE c = args[1]

\* C25: in each of the three generic dispatchers a call that names an
\* unknown tool, or that omits or passes an empty value for a required
\* parameter of a known tool, is rejected with an error response (HTTP 400
\* on /mcp/tools and /mcp/execute, a JSON-RPC error on /mcp/sse) before any
\* tool function is invoked, so that no upstream request is made for it.
C25_RefusedBeforeAnyTool ==
    \A c \in ToolCalls \cup {ToolCall(NoMember, NoMember)} :
        Refusable(c) =>
            /\ Dispatched("POST /mcp/tools", c) =>
                  requests = <<>> /\ ~raised /\ result.status = 400
            /\ Dispatched("POST /mcp/execute", c) =>
                  requests = <<>> /\ ~raised /\ result.status = 400
            /\ Dispatched("POST /mcp/sse", c) =>
                  /\ requests = <<>>
                  /\ ~raised
                  /\ result.status = 200
                  /\ "error" \in DOMAIN result.body
                  /\ "result" \notin DOMAIN result.body

\* The part of C25 that the dispatchers keep: no tool runs and no upstream
\* request is made for such a call, and the answer reports a failure; the
\* status is 400 on /mcp/tools and, where the arguments are not null, on
\* /mcp/execute.
C25_NoToolRunsForRefusedCall ==
    \A c \in ToolCalls \cup {ToolCall(NoMember, NoMember)} :
        Refusable(c) =>
            /\ Dispatched("POST /mcp/tools", c) =>
                  requests = <<>> /\ ~raised /\ result.status = 400
            /\ Dispatched("POST /mcp/execute", c) =>
                  /\ requests = <<>>
                  /\ ~raised
                  /\ IF c.arguments = Null /\ KnownTool(Value(c.name))
                     THEN result.status = 200 /\ result.body.success = FALSE
                     ELSE result.status = 400
            /\ Dispatched("POST /mcp/sse", c) =>
                  /\ requests = <<>>
                  /\ ~raised
                  /\ result.status = 200
                  /\ "error" \in DOMAIN result.body
                  /\ "result" \notin DOMAIN result.body

-----------------------------------------------------------------------------
\* The REST endpoints that wrap a tool, each with the tool it awaits.
RestTools ==
    {[endpoint |-> "GET /alerts", tool |-> "list_alerts"],
     [endpoint |-> "GET /alerts/summary", tool |-> "get_alerts_summary"],
     [endpoint |-> "GET /clusters", tool |-> "list_clusters"],
     [endpoint |-> "POST /alerts/by-cluster", tool |-> "list_alerts_by_cluster"],
     [endpoint |-> "POST /alerts/details", tool |-> "get_alert_details"],
     [endpoint |-> "POST /alerts/search/container", tool |-> "search_alerts_by_container"],
     [endpoint |-> "POST /alerts/search/name", tool |-> "get_alert_details_multi_cluster"],
     [endpoint |-> "GET /silences", tool |-> "list_silences"]}

\* What the tool of the endpoint gives on the request just handled.
RestOutcome(e) ==
    LET body == args[1]
        field(key) == Argument(body, key).text
    IN CASE e.tool = "list_silences" -> list_silences(upstream, body.text)
         [] e.tool = "list_alerts_by_cluster" ->
               Run(e.tool, <<field("cluster_name")>>, upstream)
         [] e.tool = "get_alert_details" -> Run(e.tool, <<field("alert_name")>>, upstream)
         [] e.tool = "search_alerts_by_container" ->
               Run(e.tool, <<field("container_name"), field("cluster_filter")>>, upstream)
         [] e.tool = "get_alert_details_multi_cluster" ->
               Run(e.tool, <<field("alert_name"), field("cluster_filter")>>, upstream)
         [] OTHER -> Run(e.tool, <<>>, upstream)

\* C26: each REST endpoint that wraps a tool answers HTTP 200 with
\* success=true and data equal to the string the tool returned whenever the
\* tool returns, and HTTP 200 with success=false, empty data and error set
\* to the message of the exception exactly when the tool raises.
C26_RestEnvelope ==
    \A e \in RestTools :
        (pc = "done" /\ op = e.endpoint) =>
            /\ result.status = 200
            /\ ~raised
            /\ requests = RestOutcome(e).requests
            /\ result.body.success = ~RestOutcome(e).raised
            /\ ~RestOutcome(e).raised =>
                  /\ result.body.data = RestOutcome(e).value
                  /\ result.body.data # EmptyString
                  /\ result.body.error = <<>>
            /\ RestOutcome(e).raised =>
                  /\ result.body.data = EmptyString
                  /\ result.body.error = <<RestOutcome(e).exc>>

\* POST /alerts/details answered success=false with the message of the
\* exception that get_alert_details raised on a null alert name.
C26_Witness ==
    /\ pc = "done"
    /\ op = "POST /alerts/details"
    /\ requests = <<PostAlerts>>
    /\ result.status = 200
    /\ result.body = MCPResponse(FALSE, EmptyString, <<ExcNoneLower>>)

-----------------------------------------------------------------------------
\* The upstream answered GET /health with status 200.
UpstreamHealthy == upstream.kind # "raises" /\ upstream.health = 200

\* C27: GET /health reports status 'healthy' with karma 'connected' exactly
\* when the upstream answered GET /health with status 200, reports
\* 'degraded' with karma 'issues' when the upstream answered with another
\* status or could not be reached, and responds with HTTP 503 when the
\* Karma check raises.
C27_HealthReport ==
    (pc = "done" /\ op = "GET /health") =>
        /\ ~raised
        /\ args[1].raised =>
              /\ result.status = 503
              /\ result.body = [detail |-> "Health check failed: " \o args[1].exc]
        /\ ~args[1].raised =>
              /\ requests = <<GetHealth>>
              /\ result.status = 200
              /\ result.body.message = args[1].value
              /\ result.body.status \in {"healthy", "degraded"}
              /\ result.body.status = "healthy" <=> UpstreamHealthy
              /\ result.body.karma = "connected" <=> UpstreamHealthy
              /\ result.body.status = "degraded" <=> result.body.karma = "issues"
              /\ result.body.karma \in {"connected", "issues"}

\* GET /health answered 'degraded' with 'issues' for an upstream that
\* answered its health request with a status other than 200.
C27_Witness ==
    /\ pc = "done"
    /\ op = "GET /health"
    /\ upstream.kind # "raises"
    /\ upstream.health # 200
    /\ result.status = 200
    /\ result.body.status = "degraded"
    /\ result.body.karma = "issues"

-----------------------------------------------------------------------------
\* A search was called with a non-empty cluster_filter.
Filtered ==
    /\ pc = "done"
    /\ op \in {"search_alerts_by_container", "get_alert_details_multi_cluster"}
    /\ args[2] # STR_empty

\* The cluster name contains the filter, letter case aside.
HasFilter(cluster) == Contains(Lower(args[2]), Lower(cluster))

\* The selected alerts that have a source passing the filter.
AttributedAlerts == {i \in SelectedAlerts : PassingSources(UpstreamPairs[i].alert) # {}}

\* The sentence of a search that found nothing in the clusters of the filter.
NoneFoundInCluster ==
    IF op = "get_alert_details_multi_cluster"
    THEN [kind |-> "NoInstancesOfAlert", alert_name |-> args[1], cluster_filter |-> args[2]]
    ELSE [kind |-> "NoAlertsForContainer", container_name |-> args[1],
          cluster_filter |-> args[2]]

\* C28: with a non-empty cluster_filter F, both searches report only
\* instances attributed to a cluster whose name contains F without regard
\* to letter case: no other cluster is in the cluster breakdown or in the
\* instance list, an alert all of whose sources fail the filter contributes
\* to no count, and when nothing passes the result is the sentence
\* 'No ... found in cluster F'.
C28_OnlyFilteredClusters ==
    Filtered =>
        /\ SearchReported =>
              /\ \A b \in 1..Len(ReportedBreakdown) :
                    /\ HasFilter(ReportedBreakdown[b].cluster)
                    /\ \E i \in AttributedAlerts :
                          FirstPassingCluster(UpstreamPairs[i].alert)
                              = ReportedBreakdown[b].cluster
                    /\ ReportedBreakdown[b].active + ReportedBreakdown[b].suppressed
                          <= Cardinality({i \in AttributedAlerts :
                                FirstPassingCluster(UpstreamPairs[i].alert)
                                    = ReportedBreakdown[b].cluster})
              /\ \A c \in 1..Len(result.clusters) : HasFilter(result.clusters[c].cluster)
              /\ ReportedTotal = Cardinality(AttributedAlerts)
              /\ AttributedAlerts # {}
        /\ (upstream.kind = "ok" /\ WellFormed /\ AttributedAlerts = {}) =>
              result = NoneFoundInCluster
        /\ result = NoneFoundInCluster => AttributedAlerts = {}

\* A filtered search reported one cluster while the snapshot holds a selected
\* alert none of whose sources passes the filter.
C28_Witness ==
    /\ Filtered
    /\ SearchReported
    /\ Len(ReportedBreakdown) = 1
    /\ ReportedTotal = 1
    /\ \E i \in SelectedAlerts :
          /\ UpstreamPairs[i].alert.alertmanager # <<>>
          /\ PassingSources(UpstreamPairs[i].alert) = {}

-----------------------------------------------------------------------------
\* The sum of one counter over the clusters of the breakdown.
BreakdownSum(counter) ==
    SumOver(1..Len(ReportedBreakdown),
            [b \in 1..Len(ReportedBreakdown) |->
                CASE counter = "total" -> ReportedBreakdown[b].total
                  [] counter = "active" -> ReportedBreakdown[b].active
                  [] OTHER -> ReportedBreakdown[b].suppressed])

\* The number of clusters the report gives.
ReportedClusters ==
    IF op = "get_alert_details_multi_cluster" THEN result.clusters_affected
    ELSE result.total_clusters

\* The lowered state of a selected alert.
StateOf(i) == Lower(Get(UpstreamPairs[i].alert.state, STR_unknown))

\* The attributed alerts of one cluster.
AttributedTo(cluster) ==
    {i \in SelectedAlerts :
        /\ PassingSources(UpstreamPairs[i].alert) # {}
        /\ FirstPassingCluster(UpstreamPairs[i].alert) = cluster}

\* The aggregates of a search report other than the sum of the totals: the
\* active and suppressed counters of a cluster are at most its total, and
\* make it up when every alert of the cluster is active or suppressed; the
\* final counts are the sums of the per-cluster ones; the number of
\* clusters is that of the distinct clusters of the instance list; the
\* total is at most the number of alerts selected.
OtherAggregatesConsistent ==
    /\ \A b \in 1..Len(ReportedBreakdown) :
          /\ ReportedBreakdown[b].active + ReportedBreakdown[b].suppressed
                <= ReportedBreakdown[b].total
          /\ (\A i \in AttributedTo(ReportedBreakdown[b].cluster) :
                  StateOf(i) \in {STR_active, STR_suppressed})
                => ReportedBreakdown[b].active + ReportedBreakdown[b].suppressed
                      = ReportedBreakdown[b].total
    /\ op = "get_alert_details_multi_cluster" =>
          /\ result.active_count = BreakdownSum("active")
          /\ result.suppressed_count = BreakdownSum("suppressed")
    /\ ReportedClusters = Len(ReportedBreakdown)
    /\ ReportedClusters
          = Cardinality({result.clusters[c].cluster : c \in 1..Len(result.clusters)})
    /\ SumOver(1..Len(result.clusters),
               [c \in 1..Len(result.clusters) |-> SectionInstances(result.clusters[c])])
          = ReportedTotal
    /\ ReportedTotal <= Cardinality(SelectedAlerts)

\* C29: in both searches the reported aggregates are mutually consistent:
\* the per-cluster totals sum to the reported total number of instances;
\* for each cluster active + suppressed is at most its total, with equality
\* when every matched alert is active or suppressed in any letter case; the
\* final active and suppressed counts are the sums of the per-cluster ones;
\* the number of clusters is the number of distinct clusters among the
\* reported instances; the total is at most the number of alerts in the
\* matching groups.
C29_AggregatesConsistent ==
    (SearchReported /\ WellFormed) =>
        /\ BreakdownSum("total") = ReportedTotal
        /\ OtherAggregatesConsistent

\* The part of C29 that holds: the per-cluster totals sum to the reported
\* total plus one for every attributed alert whose state reads 'total' in
\* any letter case, hence to the reported total when there is none; the
\* other aggregates are consistent for every snapshot.
C29_ConsistentButForStateTotal ==
    SearchReported =>
        /\ BreakdownSum("total")
              = ReportedTotal
                  + Cardinality({i \in SelectedAlerts :
                        /\ PassingSources(UpstreamPairs[i].alert) # {}
                        /\ StateOf(i) = STR_total})
        /\ OtherAggregatesConsistent

-----------------------------------------------------------------------------
\* A parsed snapshot with the totalAlerts of every group written out.
WithTotals(data) ==
    [grids |-> [i \in 1..Len(data.grids) |->
                  [alertGroups |->
                      [j \in 1..Len(data.grids[i].alertGroups) |->
                          [labels |-> data.grids[i].alertGroups[j].labels,
                           alerts |-> data.grids[i].alertGroups[j].alerts,
                           totalAlerts |-> Len(data.grids[i].alertGroups[j].alerts)]]]],
     instances |-> data.instances]

\* C30: filter_alerts_by_cluster leaves its input snapshot unchanged: no
\* object that existed before the call is changed by it, so the grids list
\* of the input, the alertGroups list of every grid and the alerts list and
\* totalAlerts of every group are what they were, and the snapshot filtered
\* again, for the same or another cluster, gives what filtering a fresh copy
\* gives.
C30_InputUnchanged ==
    /\ [](/\ Read(heap.cells, heap.alerts_data) = WithTotals(upstream.data)
          /\ Done("filter_alerts_by_cluster") =>
                /\ args[1] = heap.alerts_data
                /\ raised = filter_alerts_by_cluster(upstream.data, args[2]).raised
                /\ ~raised =>
                      /\ result.addr # heap.alerts_data
                      /\ Read(heap.cells, result.addr)
                            = WithTotals(filter_alerts_by_cluster(upstream.data,
                                                                  args[2]).data))
    /\ [][/\ Len(heap'.cells) >= Len(heap.cells)
          /\ \A a \in 1..Len(heap.cells) : heap'.cells[a] = heap.cells[a]]_vars

\* The snapshot was filtered a second time, for a cluster other than the
\* first, and the filtered copy holds fewer alerts than the snapshot does.
C30_Witness ==
    /\ Done("filter_alerts_by_cluster")
    /\ ~raised
    /\ heap.filtered = 2
    /\ Len(upstream.data.grids) > 0
    /\ Len(Read(heap.cells, result.addr).grids) > 0
    /\ Read(heap.cells, result.addr).grids[1].alertGroups[1].totalAlerts
          < Read(heap.cells, heap.alerts_data).grids[1].alertGroups[1].totalAlerts
    /\ \E a \in 1..Len(heap.cells) :
          /\ "grids" \in DOMAIN heap.cells[a]
          /\ a \notin {heap.alerts_data, result.addr}
          /\ Read(heap.cells, a) # Read(heap.cells, result.addr)

====
